---------------------------- MODULE Spec2Model ----------------------------
(***************************************************************************)
(* A model of the lottery analysis core of Huliichuk/loteria:              *)
(*   src/src/lib/probabilityScoring.ts        per-number and combination   *)
(*                                            scoring                      *)
(*   src/src/lib/smartCombinationGenerator.ts combination generation       *)
(*                                                                         *)
(* Representation of JavaScript numbers.  All per-number scores are        *)
(* integers.  The quantities scoreCombination rounds to one decimal        *)
(* (probabilityScore, the breakdown) are held in TENTHS, the ones that     *)
(* toFixed(2) formats (winChance, confidence) in HUNDREDTHS.  Where the    *)
(* IEEE-754 double arithmetic of the code differs from exact arithmetic    *)
(* (a ratio that lands one ulp above a band limit, a toFixed tie) the      *)
(* difference is part of the definition.  NaN is a value of its own.       *)
(***************************************************************************)
EXTENDS Integers, Sequences, FiniteSets, TLC

(***************************************************************************)
(* Bounds of the model.                                                    *)
(***************************************************************************)
\* the longest draw history the draw store supplies
MaxHistory == 22
\* the history is made of at most this many runs of one repeated draw
MaxRuns == 2

\* the longest history of the callers that repeat a generation request
MaxRepeatHistory == 3
\* the longest list of combinations handed to rankCombinations
MaxRanked == 3
\* the values of the system entropy source are 0..MaxEntropy
MaxEntropy == 1
\* the longest history of the callers that look at single generation slots
MaxSlotHistory == 12
\* the longest history of the callers that ask for a frequency prediction
MaxPredictionHistory == 8
\* the histories of the callers of the hot/cold recommendation: their length
\* and their number of runs of one repeated draw
MaxHotColdHistory == 9
MaxHotColdRuns == 3
\* the longest list of bets handed to the matching operations
MaxBets == 3
\* the number of bet store requests that can be in flight together
MaxRequests == 2
\* the number of bets the bet store accepts before the model stops posting
MaxStored == 2

VARIABLES
    draws,      \* the draw history, most recent first (Draw[])
    call,       \* the call in progress: [op |-> "idle"] or the operation and its arguments
    ret,        \* what the call returned
    entropy,    \* the state of the system entropy source (Math.random)
    previous,   \* the generation request completed last on this history, with its result
    bets,       \* the caller's list of bets handed to the matching operations (Bet[])
    resultDraw, \* the draw the bets are checked against
    supplied,   \* the bets and the draw as the caller supplied them
    betFile,    \* the bet store: the contents of data/bets.json
    requests,   \* the bet store requests in flight, each with its position and locals
    nextId      \* the number of ids (crypto.randomUUID) handed out so far

\* the variables of the analysis core, of the draw checker and of the bet store
coreVars == <<draws, call, ret, entropy, previous>>
matchVars == <<bets, resultDraw, supplied>>
storeVars == <<betFile, requests, nextId>>

vars == <<draws, call, ret, entropy, previous, bets, resultDraw, supplied,
          betFile, requests, nextId>>

(***************************************************************************)
(* Array helpers of the JavaScript library.                                *)
(***************************************************************************)
\* F(e), with e evaluated once: TLC evaluates a LET definition and an operator
\* argument again at every use of it, a bound variable it does not
Bind(e, F(_)) == CHOOSE r \in {F(v) : v \in {e}} : TRUE

\* Array.prototype.includes
includes(arr, x) == \E i \in DOMAIN arr : arr[i] = x

\* Array.prototype.slice(0, n)
slice0(arr, n) ==
    Bind(arr, LAMBDA a : SubSeq(a, 1, IF Len(a) < n THEN Len(a) ELSE n))

\* Array.prototype.filter(x => !without.includes(x))
without(arr, excluded) ==
    Bind(excluded, LAMBDA ex : SelectSeq(arr, LAMBDA x : ~includes(ex, x)))

SetMax(S) == CHOOSE m \in S : \A x \in S : x <= m

\* the elements of pairs (<<key, element>>) by key descending, equal keys in
\* their order in pairs
RECURSIVE BucketsDesc(_, _)
BucketsDesc(pairs, keys) ==
    IF keys = {} THEN <<>>
    ELSE Bind(SetMax(keys), LAMBDA m :
             SelectSeq(pairs, LAMBDA p : p[1] = m)
             \o Bind(keys \ {m}, LAMBDA rest : BucketsDesc(pairs, rest)))

\* Array.prototype.sort((a, b) => Key(b) - Key(a)): a stable sort (ECMAScript
\* 2019), descending by Key
SortDescBy(arr, Key(_)) ==
    Bind(arr, LAMBDA a :
    Bind([i \in DOMAIN a |-> <<Key(a[i]), a[i]>>], LAMBDA pairs :
    Bind(BucketsDesc(pairs, {pairs[i][1] : i \in DOMAIN pairs}), LAMBDA sorted :
        [i \in DOMAIN sorted |-> sorted[i][2]])))

\* Array.prototype.sort((a, b) => a - b) on numbers
SortAsc(arr) == SortDescBy(arr, LAMBDA x : 0 - x)

(***************************************************************************)
(* probabilityScoring.ts: per-number scores                                *)
(***************************************************************************)
Types == {"numbers", "stars"}

\* const pool = type === 'numbers' ? draw.numbers : draw.stars
pool(draw, type) == IF type = "numbers" THEN draw.numbers ELSE draw.stars

\* the number of draws of ds that hold number
appearancesIn(number, ds, type) ==
    Bind(ds, LAMBDA d :
        Cardinality({i \in DOMAIN d : includes(pool(d[i], type), number)}))

\* The double appearances / (draws.length * (2 / 12)) is one ulp above the exact
\* ratio 1.2 or 1.5 for these <<draws.length, appearances>> (draws.length <= 30);
\* every other ratio at a band limit, and every ratio of the numbers pool, is
\* the exact one.
StarRatioRoundedUp ==
    {<<5, 1>>, <<10, 2>>, <<20, 4>>, <<20, 5>>, <<25, 5>>, <<28, 7>>}

calculateFrequencyScore(number, ds, type) ==
    Bind(appearancesIn(number, ds, type), LAMBDA appearances :
    LET len == Len(ds)
        \* ratio = appearances / expectedAppearances = rn / rd, 0 when rd = 0
        rn == IF type = "numbers" THEN appearances * 50 ELSE appearances * 12
        rd == IF type = "numbers" THEN len * 5 ELSE len * 2
        up == type = "stars" /\ <<len, appearances>> \in StarRatioRoundedUp
        \* ratio >= a/10, ratio <= a/10
        ge(a) == IF rd = 0 THEN FALSE ELSE rn * 10 >= a * rd
        le(a) == IF rd = 0 THEN TRUE
                 ELSE rn * 10 < a * rd \/ (rn * 10 = a * rd /\ ~up)
    IN  IF ge(8) /\ le(12) THEN 40
        ELSE IF ge(6) /\ ~ge(8) THEN 30
        ELSE IF ~le(12) /\ le(15) THEN 35
        ELSE IF ~le(15) THEN 25
        ELSE 20)

calculateHotColdScore(number, ds, type) ==
    Bind(appearancesIn(number, slice0(ds, 10), type), LAMBDA recentCount :
    Bind(appearancesIn(number, slice0(ds, 20), type), LAMBDA midCount :
    LET \* recentRate > midRate, recentCount / 10 > midCount / 20
        hotter == recentCount * 20 > midCount * 10
    IN  IF recentCount >= 3 /\ hotter THEN 30
        ELSE IF recentCount >= 2 THEN 25
        ELSE IF recentCount = 1 THEN 20
        ELSE IF recentCount = 0 /\ midCount >= 2 THEN 22
        ELSE 15))

clamp(lo, x, hi) == IF x < lo THEN lo ELSE IF x > hi THEN hi ELSE x

calculatePatternScore(number, type) ==
    IF type = "stars" THEN 15
    ELSE LET mid  == IF number >= 15 /\ number <= 35 THEN 5 ELSE 0
             odd  == IF number % 2 # 0 THEN 3 ELSE 0
             five == IF number % 5 = 0 THEN 3 ELSE 0
         IN  clamp(0, 10 + mid + odd - five, 20)

\* the scan starting from draws.length instead of -1, as the frequency model
\* reports a number that was never seen
lastSeenIndexOrLength(number, ds, type) ==
    Bind({i \in DOMAIN ds : includes(pool(ds[i], type), number)}, LAMBDA hits :
        IF hits = {} THEN Len(ds)
        ELSE (CHOOSE i \in hits : \A j \in hits : i <= j) - 1)

\* the index (0-based) of the most recent draw holding number, -1 when none does
lastSeenIndex(number, ds, type) ==
    Bind({i \in DOMAIN ds : includes(pool(ds[i], type), number)}, LAMBDA hits :
        IF hits = {} THEN -1
        ELSE (CHOOSE i \in hits : \A j \in hits : i <= j) - 1)

calculateOverdueScore(number, ds, type) ==
    LET expectedInterval == IF type = "numbers" THEN 10 ELSE 6
    IN  Bind(lastSeenIndex(number, ds, type), LAMBDA lastSeen :
            IF lastSeen = -1 THEN 10
            ELSE IF lastSeen > expectedInterval * 2 THEN 10
            ELSE IF lastSeen > expectedInterval THEN 7
            ELSE IF lastSeen = 0 THEN 2
            ELSE 5)

\* The double (totalScore / 100) * 100 is totalScore itself, or one unit in the
\* last place above (1) or below (-1) it: the signed error, for totalScore in 0..100
percentError(totalScore) ==
    IF totalScore \in {7, 14, 28, 55, 56} THEN 1
    ELSE IF totalScore \in {29, 57, 58} THEN -1
    ELSE 0

calculateNumberProbability(number, ds, type) ==
    Bind(calculateFrequencyScore(number, ds, type), LAMBDA frequencyScore :
    Bind(calculateHotColdScore(number, ds, type), LAMBDA hotColdScore :
    Bind(calculatePatternScore(number, type), LAMBDA patternScore :
    Bind(calculateOverdueScore(number, ds, type), LAMBDA overdueScore :
    LET totalScore == frequencyScore + hotColdScore + patternScore + overdueScore
    IN  [number         |-> number,
         frequencyScore |-> frequencyScore,
         hotColdScore   |-> hotColdScore,
         patternScore   |-> patternScore,
         overdueScore   |-> overdueScore,
         totalScore     |-> totalScore,
         \* (totalScore / 100) * 100: the double nearest <<n, e>> is n + e ulp
         winChance      |-> <<totalScore, percentError(totalScore)>>]))))

maxNumber(type) == IF type = "numbers" THEN 50 ELSE 12

\* getAllNumberProbabilities with a sort that is not stable: entries of equal
\* totalScore come out in the reverse of their insertion order
getAllNumberProbabilitiesUnstable(ds, type) ==
    Bind([i \in 1..maxNumber(type) |->
             calculateNumberProbability(maxNumber(type) + 1 - i, ds, type)],
         LAMBDA probabilities : SortDescBy(probabilities, LAMBDA p : p.totalScore))

getAllNumberProbabilities(ds, type) ==
    Bind([i \in 1..maxNumber(type) |-> calculateNumberProbability(i, ds, type)],
         LAMBDA probabilities : SortDescBy(probabilities, LAMBDA p : p.totalScore))

(***************************************************************************)
(* probabilityScoring.ts: scoreCombination                                 *)
(***************************************************************************)
\* The JavaScript NaN (0 / 0).  Every proper value of the quantities that can
\* be NaN is >= 0.
NaN == -1

\* n / d rounded to the nearest integer, halves up (Math.round, toFixed), n >= 0
RoundDiv(n, d) == (2 * n + d) \div (2 * d)

RECURSIVE SumOverButLast(_, _)
\* SumOver that stops one element early
SumOverButLast(arr, f) ==
    IF Len(arr) <= 1 THEN 0
    ELSE Head(arr)[f] + Bind(Tail(arr), LAMBDA rest : SumOverButLast(rest, f))

RECURSIVE SumOver(_, _)
\* the sum of field f over the records of arr
SumOver(arr, f) ==
    IF arr = <<>> THEN 0
    ELSE Head(arr)[f] + Bind(Tail(arr), LAMBDA rest : SumOver(rest, f))

\* winChanceFixed of a probabilityScore not divided by 100
winChanceOfPercent(sum, count) == RoundDiv(1500 * sum, count)

\* ((probabilityScore / 100) * 15).toFixed(2), in hundredths, of the
\* probabilityScore sum / count
winChanceFixed(sum, count) == RoundDiv(15 * sum, count)

scoreCombination(numbers, stars, ds) ==
    Bind([i \in DOMAIN numbers |->
             calculateNumberProbability(numbers[i], ds, "numbers")]
         \o [i \in DOMAIN stars |->
             calculateNumberProbability(stars[i], ds, "stars")], LAMBDA probs :
    Bind(SumOver(probs, "frequencyScore"), LAMBDA totalFrequency :
    Bind(SumOver(probs, "hotColdScore"), LAMBDA totalHotCold :
    Bind(SumOver(probs, "patternScore"), LAMBDA totalPattern :
    Bind(SumOver(probs, "overdueScore"), LAMBDA totalOverdue :
    LET count          == Len(numbers) + Len(stars)
        evenCount == Cardinality({i \in DOMAIN numbers : numbers[i] % 2 = 0})
        lowCount  == Cardinality({i \in DOMAIN numbers : numbers[i] <= 25})
        balanceBonus ==
            (IF evenCount >= 2 /\ evenCount <= 3 THEN 3 ELSE 0)
            + (IF lowCount >= 2 /\ lowCount <= 3 THEN 3 ELSE 0)
        \* avgFrequency + avgHotCold + avgPattern + avgOverdue + balanceBonus
        \* = sum / count
        sum    == totalFrequency + totalHotCold + totalPattern + totalOverdue
                  + balanceBonus * count
        \* Math.min(100, ...) = capped / count
        capped == IF sum > 100 * count THEN 100 * count ELSE sum
    IN  IF count = 0
        THEN \* every average is 0 / 0
             [numbers          |-> numbers,
              stars            |-> stars,
              probabilityScore |-> NaN,
              winChance        |-> NaN,
              breakdown        |-> [frequencyScore |-> NaN, hotColdScore |-> NaN,
                                    patternScore |-> NaN, overdueScore |-> NaN]]
        ELSE [numbers          |-> numbers,
              stars            |-> stars,
              \* Math.round(probabilityScore * 10) / 10, in tenths
              probabilityScore |-> RoundDiv(10 * capped, count),
              winChance        |-> winChanceFixed(capped, count),
              breakdown        |->
                 [frequencyScore |-> RoundDiv(10 * totalFrequency, count),
                  hotColdScore   |-> RoundDiv(10 * totalHotCold, count),
                  patternScore   |-> RoundDiv(10 * (totalPattern + balanceBonus * count),
                                              count),
                  overdueScore   |-> RoundDiv(10 * totalOverdue, count)]])))))

(***************************************************************************)
(* smartCombinationGenerator.ts: the selection strategies                  *)
(***************************************************************************)
\* arr.map(c => c.number)
numbersOf(arr) == [i \in DOMAIN arr |-> arr[i].number]

RECURSIVE fillFrom(_, _, _)
\* while (selected.length < n) { push the first candidate not selected, or break }
fillFrom(selected, candidates, n) ==
    IF Len(selected) >= n THEN selected
    ELSE Bind(without(candidates, selected), LAMBDA remaining :
             IF remaining # <<>>
             THEN Bind(Append(selected, remaining[1]), LAMBDA s :
                      fillFrom(s, candidates, n))
             ELSE selected)

\* the walk of selectBestNumbers without its adjacency test
bestWalkTopFive(candidates, k, selected) == slice0(candidates, 5)

RECURSIVE bestWalk(_, _, _)
\* the for loop of selectBestNumbers from candidate k on
bestWalk(candidates, k, selected) ==
    IF k > Len(candidates) \/ Len(selected) >= 5 THEN selected
    ELSE LET c == candidates[k]
             hasConsecutive ==
                 \E i \in DOMAIN selected :
                    selected[i] - c = 1 \/ c - selected[i] = 1
         IN  Bind(IF Len(selected) >= 3 /\ hasConsecutive
                  THEN selected ELSE Append(selected, c), LAMBDA s :
                 bestWalk(candidates, k + 1, s))

selectBestNumbers(numberProbs) ==
    Bind(numbersOf(slice0(numberProbs, 15)), LAMBDA topCandidates :
    Bind(bestWalk(topCandidates, 1, <<>>), LAMBDA selected :
        SortAsc(fillFrom(selected, topCandidates, 5))))

selectBestStars(starProbs) == SortAsc(numbersOf(slice0(starProbs, 2)))

RECURSIVE pushNew(_, _, _, _)
\* for (i = k; i <= last && selected.length < limit; i++)
\*     if (!selected.includes(candidates[i])) selected.push(candidates[i])
pushNew(selected, candidates, k, limit) ==
    IF k > Len(candidates) \/ Len(selected) >= limit THEN selected
    ELSE Bind(IF includes(selected, candidates[k]) THEN selected
              ELSE Append(selected, candidates[k]), LAMBDA s :
             pushNew(s, candidates, k + 1, limit))

selectBalancedNumbers(numberProbs) ==
    Bind(numbersOf(slice0(SortDescBy(numberProbs, LAMBDA p : p.hotColdScore), 10)),
         LAMBDA hotNumbers :
    Bind(numbersOf(slice0(SortDescBy(numberProbs, LAMBDA p : p.overdueScore), 10)),
         LAMBDA overdueNumbers :
    \* the hot numbers are distinct: the first loop pushes the first 3
    Bind(pushNew(<<>>, slice0(hotNumbers, 3), 1, 3), LAMBDA hot :
    Bind(pushNew(hot, overdueNumbers, 1, 5), LAMBDA overdue :
    Bind(numbersOf(numberProbs), LAMBDA all :
        SortAsc(fillFrom(overdue, all, 5)))))))

selectBalancedStars(starProbs) ==
    Bind(numbersOf(SortDescBy(starProbs, LAMBDA p : p.hotColdScore)),
         LAMBDA hotStars :
    Bind(numbersOf(SortDescBy(starProbs, LAMBDA p : p.overdueScore)),
         LAMBDA overdueStars :
    Bind(slice0(hotStars, 1), LAMBDA hot :
    \* the first overdue star not selected, if any
    Bind(hot \o slice0(without(overdueStars, hot), 1), LAMBDA overdue :
    Bind(numbersOf(starProbs), LAMBDA all :
        SortAsc(fillFrom(overdue, all, 2)))))))

RECURSIVE patternWalk(_, _, _)
\* the for loop of selectPatternNumbers from candidate k on; the four counters
\* are those of the numbers selected so far
patternWalk(candidates, k, selected) ==
    IF k > Len(candidates) \/ Len(selected) >= 5 THEN selected
    ELSE LET c         == candidates[k]
             isEven    == c % 2 = 0
             isLow     == c <= 25
             evenCount == Cardinality({i \in DOMAIN selected : selected[i] % 2 = 0})
             oddCount  == Len(selected) - evenCount
             lowCount  == Cardinality({i \in DOMAIN selected : selected[i] <= 25})
             highCount == Len(selected) - lowCount
             skip      == \/ isEven /\ evenCount >= 3
                          \/ ~isEven /\ oddCount >= 3
                          \/ isLow /\ lowCount >= 3
                          \/ ~isLow /\ highCount >= 3
         IN  Bind(IF skip THEN selected ELSE Append(selected, c), LAMBDA s :
                 patternWalk(candidates, k + 1, s))

selectPatternNumbers(numberProbs) ==
    Bind(numbersOf(slice0(numberProbs, 20)), LAMBDA topCandidates :
    Bind(patternWalk(topCandidates, 1, <<>>), LAMBDA selected :
        SortAsc(fillFrom(selected, topCandidates, 5))))

(***************************************************************************)
(* The seeded pseudo-random numbers x - Math.floor(x) with                 *)
(* x = Math.sin(seed * a + index * b) * 10000, a value in [0, 1), given by *)
(* its first twelve decimals as four groups of three digits.  seed is the  *)
(* slot index, 3..9.                                                       *)
(***************************************************************************)
\* randomOfNumbers drawn from the engine's generator, Math.random(), instead
randomOfNumbersFromEntropy(seed, index) ==
    <<(92 + 137 * entropy + 211 * index) % 1000, 717, 949, 319>>

\* a = 12345, b = 67890 (selectWeightedRandomNumbers), index 0..4
randomOfNumbers(seed, index) ==
    LET row ==
        CASE seed = 3 -> <<<<92, 717, 949, 319>>, <<304, 677, 728, 849>>, <<103, 99, 860, 463>>, <<267, 70, 114, 164>>, <<56, 750, 739, 399>>>>
          [] seed = 4 -> <<<<654, 288, 817, 627>>, <<814, 999, 757, 398>>, <<904, 331, 254, 650>>, <<255, 589, 761, 745>>, <<253, 620, 200, 805>>>>
          [] seed = 5 -> <<<<635, 430, 670, 325>>, <<699, 44, 572, 284>>, <<477, 459, 254, 109>>, <<13, 781, 95, 173>>, <<664, 499, 43, 808>>>>
          [] seed = 6 -> <<<<90, 643, 609, 826>>, <<994, 327, 619, 840>>, <<732, 235, 371, 187>>, <<951, 446, 787, 546>>, <<757, 246, 374, 112>>>>
          [] seed = 7 -> <<<<352, 299, 354, 770>>, <<853, 870, 672, 898>>, <<544, 459, 361, 164>>, <<325, 679, 835, 896>>, <<659, 168, 984, 884>>>>
          [] seed = 8 -> <<<<707, 431, 515, 638>>, <<118, 202, 72, 566>>, <<391, 276, 508, 904>>, <<669, 840, 950, 245>>, <<655, 176, 324, 384>>>>
          [] seed = 9 -> <<<<197, 796, 690, 581>>, <<665, 192, 183, 220>>, <<611, 510, 699, 152>>, <<818, 132, 173, 536>>, <<859, 513, 272, 516>>>>
    IN  row[index + 1]

\* a = 54321, b = 98760 (selectWeightedRandomStars), index 0..1
randomOfStars(seed, index) ==
    LET row ==
        CASE seed = 3 -> <<<<793, 416, 973, 669>>, <<97, 939, 428, 213>>>>
          [] seed = 4 -> <<<<6, 930, 68, 639>>, <<422, 673, 66, 168>>>>
          [] seed = 5 -> <<<<121, 367, 508, 711>>, <<80, 660, 285, 307>>>>
          [] seed = 6 -> <<<<602, 332, 855, 783>>, <<743, 120, 267, 747>>>>
          [] seed = 7 -> <<<<550, 699, 741, 464>>, <<230, 963, 140, 91>>>>
          [] seed = 8 -> <<<<543, 694, 943, 851>>, <<144, 82, 993, 690>>>>
          [] seed = 9 -> <<<<214, 778, 113, 163>>, <<747, 432, 847, 805>>>>
    IN  row[index + 1]

\* the first twelve decimals of c / t (0 <= c < t), as four groups of three
fractionDigits(c, t) ==
    LET q1 == (c * 1000) \div t
        r1 == (c * 1000) % t
        q2 == (r1 * 1000) \div t
        r2 == (r1 * 1000) % t
        q3 == (r2 * 1000) \div t
        r3 == (r2 * 1000) % t
        q4 == (r3 * 1000) \div t
    IN  <<q1, q2, q3, q4>>

\* randomValue <= cumulativeWeight, with randomValue = random * totalWeight.
\* No c / t with t <= 2600 agrees with a value of the two tables in its first
\* ten decimals, so the twelve digits decide the comparison as the doubles do.
randomValueLE(random, totalWeight, cumulativeWeight) ==
    IF cumulativeWeight >= totalWeight THEN TRUE
    ELSE LET c == fractionDigits(cumulativeWeight, totalWeight)
         IN  \E k \in 1..4 :
                /\ random[k] < c[k]
                /\ \A j \in 1..(k - 1) : random[j] = c[j]

RECURSIVE weightedPick(_, _, _, _, _, _)
\* the inner for loop from candidate j on: the candidates that one round of the
\* weighted selection appends to selected (one, or none)
weightedPick(candidates, random, totalWeight, j, cumulativeWeight, selected) ==
    IF j > Len(candidates) THEN <<>>
    ELSE IF includes(selected, candidates[j].number)
    THEN weightedPick(candidates, random, totalWeight, j + 1, cumulativeWeight, selected)
    ELSE Bind(cumulativeWeight + candidates[j].totalScore, LAMBDA cumulative :
             IF randomValueLE(random, totalWeight, cumulative)
             THEN <<candidates[j].number>>
             ELSE weightedPick(candidates, random, totalWeight, j + 1, cumulative,
                               selected))

\* weightedRound without the fallback of a round that picked nothing
weightedRoundNoFallback(candidates, random, i, selected) ==
    Bind(SumOver(candidates, "totalScore"), LAMBDA totalWeight :
        selected \o weightedPick(candidates, random, totalWeight, 1, 0, selected))

\* one round i of the outer loop: the weighted pick, then the fallback
weightedRound(candidates, random, i, selected) ==
    Bind(SumOver(candidates, "totalScore"), LAMBDA totalWeight :
    Bind(selected \o weightedPick(candidates, random, totalWeight, 1, 0, selected),
         LAMBDA picked :
        IF Len(picked) = i
        THEN picked \o slice0(without(numbersOf(candidates), picked), 1)
        ELSE picked))

RECURSIVE weightedNumbersFrom(_, _, _, _)
weightedNumbersFrom(candidates, seed, i, selected) ==
    IF i >= 5 THEN selected
    ELSE Bind(randomOfNumbers(seed, i), LAMBDA random :
         Bind(weightedRound(candidates, random, i, selected), LAMBDA s :
             weightedNumbersFrom(candidates, seed, i + 1, s)))

selectWeightedRandomNumbers(numberProbs, seed) ==
    Bind(slice0(numberProbs, 25), LAMBDA candidates :
        SortAsc(weightedNumbersFrom(candidates, seed, 0, <<>>)))

RECURSIVE weightedStarsFrom(_, _, _, _)
weightedStarsFrom(candidates, seed, i, selected) ==
    IF i >= 2 THEN selected
    ELSE Bind(randomOfStars(seed, i), LAMBDA random :
         Bind(weightedRound(candidates, random, i, selected), LAMBDA s :
             weightedStarsFrom(candidates, seed, i + 1, s)))

selectWeightedRandomStars(starProbs, seed) ==
    Bind(slice0(starProbs, 6), LAMBDA candidates :
        SortAsc(weightedStarsFrom(candidates, seed, 0, <<>>)))

(***************************************************************************)
(* smartCombinationGenerator.ts: confidence, generation, ranking           *)
(***************************************************************************)
\* The probabilityScore values (in tenths) at which the double
\* (probabilityScore / 100) * Math.max(0.5, 1 - rank * 0.05) lies just below a
\* tie of toFixed(2), which therefore rounds down; rank >= 10 gives the factor
\* 0.5 that rank 10 gives.
toFixedRoundsDown(rank) ==
    CASE rank = 0 -> {15, 45, 75, 105, 145, 155, 175, 185, 205, 215, 235, 245, 285,
                      295, 305, 345, 355, 365, 415, 425, 435, 475, 485, 495, 565,
                      575, 585, 595, 605, 615, 695, 705, 715, 725, 735, 745, 815,
                      825, 835, 845, 855, 865, 945, 955, 965, 975, 985, 995}
      [] rank = 1 -> {300, 500, 700, 900}
      [] rank = 2 -> {950}
      [] rank = 3 -> {500, 700}
      [] rank = 5 -> {20, 60, 300, 580, 620, 660, 700, 740, 780, 820, 940, 980}
      [] rank = 6 -> {50, 150, 250, 350, 650, 750, 850, 950}
      [] rank = 7 -> {100, 300, 500, 700, 900}
      [] rank = 8 -> {25, 75, 125, 175, 375, 475, 575, 725, 775, 825, 975}
      [] rank >= 10 -> {30, 90, 150, 210, 290, 310, 350, 370, 410, 430, 470, 490,
                        570, 590, 610, 690, 710, 730, 830, 850, 870, 950, 970, 990}
      [] OTHER -> {}

\* calculateConfidence losing 0.1 per rank instead of 0.05
calculateConfidenceSteep(probabilityScore, rank) ==
    LET factor == IF 10 - rank < 5 THEN 5 ELSE 10 - rank
    IN  RoundDiv(probabilityScore * factor, 100)

\* confidence.toFixed(2), in hundredths; probabilityScore in tenths
calculateConfidence(probabilityScore, rank) ==
    LET \* Math.max(0.5, 1 - rank * 0.05) = factor / 20
        factor == IF 20 - rank < 10 THEN 10 ELSE 20 - rank
        exact  == RoundDiv(probabilityScore * factor, 200)
    IN  IF probabilityScore \in toFixedRoundsDown(rank) THEN exact - 1 ELSE exact

\* .sort((a, b) => b.probabilityScore - a.probabilityScore)
\* .map((combo, index) => ({ ...combo, rank: index + 1 }))
\* With a NaN score the comparator yields NaN against every other element,
\* which sort reads as +0: among at most two elements that is the only
\* comparison, and the order stays.  (With more, the comparator is not
\* consistent and the order is implementation-defined; RankInputs hands over
\* no such list.)
sortAndRank(combinations) ==
    Bind(IF \E i \in DOMAIN combinations : combinations[i].probabilityScore = NaN
         THEN combinations
         ELSE SortDescBy(combinations, LAMBDA c : c.probabilityScore), LAMBDA sorted :
        [i \in DOMAIN sorted |-> [sorted[i] EXCEPT !.rank = i]])

\* the combination of slot i, scored
slotCombination(numberProbs, starProbs, ds, i) ==
    LET numbers == CASE i = 0 -> selectBestNumbers(numberProbs)
                     [] i = 1 -> selectBalancedNumbers(numberProbs)
                     [] i = 2 -> selectPatternNumbers(numberProbs)
                     [] OTHER -> selectWeightedRandomNumbers(numberProbs, i)
        stars   == CASE i = 0 -> selectBestStars(starProbs)
                     [] i = 1 -> selectBalancedStars(starProbs)
                     [] i = 2 -> selectBestStars(starProbs)
                     [] OTHER -> selectWeightedRandomStars(starProbs, i)
    IN  Bind(numbers, LAMBDA ns : Bind(stars, LAMBDA ss :
        Bind(scoreCombination(ns, ss, ds), LAMBDA score :
            [numbers          |-> score.numbers,
             stars            |-> score.stars,
             probabilityScore |-> score.probabilityScore,
             winChance        |-> score.winChance,
             breakdown        |-> score.breakdown,
             rank             |-> i + 1,
             confidence       |-> calculateConfidence(score.probabilityScore, i)])))

\* numCount without the lower limit: Math.min(10, count)
numCountNoFloor(count) == IF count > 10 THEN 10 ELSE count

\* Math.min(10, Math.max(1, count))
numCount(count) == clamp(1, count, 10)

generateTopCombinations(ds, count) ==
    Bind(getAllNumberProbabilities(ds, "numbers"), LAMBDA numberProbs :
    Bind(getAllNumberProbabilities(ds, "stars"), LAMBDA starProbs :
        sortAndRank([k \in 1..numCount(count) |->
                        slotCombination(numberProbs, starProbs, ds, k - 1)])))

rankCombinations(combinations, ds) ==
    sortAndRank([k \in DOMAIN combinations |->
        Bind(scoreCombination(combinations[k].numbers, combinations[k].stars, ds),
             LAMBDA score :
            [numbers          |-> score.numbers,
             stars            |-> score.stars,
             probabilityScore |-> score.probabilityScore,
             winChance        |-> score.winChance,
             breakdown        |-> score.breakdown,
             rank             |-> k,
             confidence       |-> calculateConfidence(score.probabilityScore, k - 1)])])

(***************************************************************************)
(* The draw store and the callers of the core.                             *)
(***************************************************************************)
\* the draws the draw store may record
DrawPool ==
    { [numbers |-> <<16, 17, 18, 19, 21>>, stars |-> <<2, 3>>],
      [numbers |-> <<3, 17, 25, 26, 50>>, stars |-> <<2, 12>>] }

\* the number of runs of one repeated draw in a history
Runs(ds) ==
    IF ds = <<>> THEN 0
    ELSE 1 + Cardinality({i \in 1..(Len(ds) - 1) : ds[i] # ds[i + 1]})

\* the combinations callers score and rank
CombinationPool ==
    { [numbers |-> <<16, 17, 18, 19, 21>>, stars |-> <<2, 3>>],
      [numbers |-> <<3, 17, 25, 26, 50>>, stars |-> <<2, 12>>],
      [numbers |-> <<1, 2, 3, 4, 5>>, stars |-> <<1, 2>>],
      [numbers |-> <<7, 20, 29, 38, 44>>, stars |-> <<5, 11>>] }

\* the orders a caller may hand 5 numbers, and 2 stars, over in
NumberOrders == {<<1, 2, 3, 4, 5>>, <<5, 4, 3, 2, 1>>, <<3, 1, 5, 2, 4>>}
StarOrders == {<<1, 2>>, <<2, 1>>}

reorder(arr, order) == [i \in DOMAIN order |-> arr[order[i]]]

\* the pair with nothing selected, which the parameter type admits
EmptyPair == [numbers |-> <<>>, stars |-> <<>>]

\* what callers hand to scoreCombination: well-formed combinations in several
\* orders, and the degenerate call with nothing selected
ScoreInputs ==
    { [numbers |-> reorder(c.numbers, no), stars |-> reorder(c.stars, so)] :
          c \in CombinationPool, no \in NumberOrders, so \in StarOrders }
    \cup { EmptyPair }

\* what callers hand to rankCombinations: lists of well-formed combinations,
\* repeated ones and unsorted ones among them
RankPool ==
    { [numbers |-> <<16, 17, 18, 19, 21>>, stars |-> <<2, 3>>],
      [numbers |-> <<50, 26, 25, 17, 3>>, stars |-> <<12, 2>>],
      [numbers |-> <<7, 20, 29, 38, 44>>, stars |-> <<5, 11>>] }

RankInputs ==
    UNION { [1..n -> RankPool] : n \in 0..MaxRanked }
    \cup UNION { {l \in [1..n -> RankPool \cup {EmptyPair}] :
                      \E i \in 1..n : l[i] = EmptyPair} : n \in 1..2 }

\* the count arguments of generateTopCombinations
Counts == (-2)..12

\* the count arguments of the runs that are repeated
RepeatCounts == {1, 4, 10}

Idle == [op |-> "idle"]
None == [kept |-> FALSE]

\* before the caller has supplied anything to the matching operations
NoDraw == [date |-> "", numbers |-> <<>>, stars |-> <<>>]

\* a request handler of the bet store that has served no request yet: its
\* position, the request (method, JSON body, id parameter), the locals newBet
\* and bets (filteredBets for DELETE), and the status of its response
NoBet == [id |-> "", numbers |-> <<>>, stars |-> <<>>]
NoBody == [numbersIsArray |-> FALSE, numbers |-> <<>>, stars |-> <<>>]
NoRequest ==
    [pc |-> "done", method |-> "", body |-> NoBody, id |-> "",
     newBet |-> NoBet, bets |-> <<>>, status |-> 0]

Init ==
    /\ draws = <<>>
    /\ call = Idle
    /\ ret = <<>>
    /\ entropy = 0
    /\ previous = None
    /\ bets = <<>>
    /\ resultDraw = NoDraw
    /\ supplied = [bets |-> <<>>, draw |-> NoDraw]
    /\ betFile = <<>>
    /\ requests = [h \in 1..MaxRequests |-> NoRequest]
    /\ nextId = 0

\* the draw store records a new draw: it becomes index 0 of the history
RecordDrawUpTo(maxLen) ==
    /\ call.op = "idle"
    /\ Len(draws) < maxLen
    /\ \E d \in DrawPool :
          /\ Runs(<<d>> \o draws) <= MaxRuns
          /\ draws' = <<d>> \o draws
    /\ previous' = None
    /\ UNCHANGED <<call, ret, entropy>>
    /\ UNCHANGED <<matchVars, storeVars>>

RecordDraw == RecordDrawUpTo(MaxHistory)

CalculateNumberProbability ==
    /\ call.op = "idle"
    /\ \E type \in Types : \E number \in 1..maxNumber(type) :
          /\ call' = [op |-> "calculateNumberProbability", number |-> number, type |-> type]
          /\ ret' = calculateNumberProbability(number, draws, type)
    /\ UNCHANGED <<draws, entropy, previous>>
    /\ UNCHANGED <<matchVars, storeVars>>

GetAllNumberProbabilities ==
    /\ call.op = "idle"
    /\ \E type \in Types :
          /\ call' = [op |-> "getAllNumberProbabilities", type |-> type]
          /\ ret' = getAllNumberProbabilities(draws, type)
    /\ UNCHANGED <<draws, entropy, previous>>
    /\ UNCHANGED <<matchVars, storeVars>>

ScoreCombination ==
    /\ call.op = "idle"
    /\ \E in \in ScoreInputs :
          /\ call' = [op |-> "scoreCombination", numbers |-> in.numbers, stars |-> in.stars]
          /\ ret' = scoreCombination(in.numbers, in.stars, draws)
    /\ UNCHANGED <<draws, entropy, previous>>
    /\ UNCHANGED <<matchVars, storeVars>>

GenerateTopCombinationsOf(counts) ==
    /\ call.op = "idle"
    /\ \E count \in counts :
          /\ call' = [op |-> "generateTopCombinations", count |-> count]
          /\ ret' = generateTopCombinations(draws, count)
    /\ UNCHANGED <<draws, entropy, previous>>
    /\ UNCHANGED <<matchVars, storeVars>>

GenerateTopCombinations == GenerateTopCombinationsOf(Counts)

RankCombinations ==
    /\ call.op = "idle"
    /\ \E combinations \in RankInputs :
          /\ call' = [op |-> "rankCombinations", combinations |-> combinations]
          /\ ret' = rankCombinations(combinations, draws)
    /\ UNCHANGED <<draws, entropy, previous>>
    /\ UNCHANGED <<matchVars, storeVars>>

\* the caller takes the result
Return ==
    /\ call.op # "idle"
    /\ call' = Idle
    /\ ret' = <<>>
    /\ UNCHANGED <<draws, entropy, previous>>
    /\ UNCHANGED <<matchVars, storeVars>>

(***************************************************************************)
(* The callers of the scoring functions.                                   *)
(***************************************************************************)
NextScoring ==
    \/ RecordDraw
    \/ CalculateNumberProbability
    \/ GetAllNumberProbabilities
    \/ ScoreCombination
    \/ Return

SpecScoring == Init /\ [][NextScoring]_vars

(***************************************************************************)
(* The callers of the generator.                                           *)
(***************************************************************************)
NextGenerate ==
    \/ RecordDraw
    \/ GenerateTopCombinations
    \/ RankCombinations
    \/ Return

SpecGenerate == Init /\ [][NextGenerate]_vars

(***************************************************************************)
(* Single slots of the generator: one turn of the loop of                  *)
(* generateTopCombinations, on histories of three different draws.         *)
(***************************************************************************)
\* the draws of these histories: those of DrawPool and a draw of low numbers
SlotDrawPool == DrawPool \cup { [numbers |-> <<1, 2, 5, 7, 14>>, stars |-> <<9, 12>>] }

RecordSlotDraw ==
    /\ call.op = "idle"
    /\ Len(draws) < MaxSlotHistory
    /\ \E d \in SlotDrawPool :
          /\ Runs(<<d>> \o draws) <= MaxRuns
          /\ draws' = <<d>> \o draws
    /\ previous' = None
    /\ UNCHANGED <<call, ret, entropy>>
    /\ UNCHANGED <<matchVars, storeVars>>

\* the body of the loop for slot i: selection, score and confidence
generateSlot(ds, i) ==
    Bind(getAllNumberProbabilities(ds, "numbers"), LAMBDA numberProbs :
    Bind(getAllNumberProbabilities(ds, "stars"), LAMBDA starProbs :
        slotCombination(numberProbs, starProbs, ds, i)))

GenerateSlot ==
    /\ call.op = "idle"
    /\ \E i \in 0..9 :
          /\ call' = [op |-> "generateSlot", index |-> i]
          /\ ret' = generateSlot(draws, i)
    /\ UNCHANGED <<draws, entropy, previous>>
    /\ UNCHANGED <<matchVars, storeVars>>

NextSlots ==
    \/ RecordSlotDraw
    \/ GenerateSlot
    \/ Return

SpecSlots == Init /\ [][NextSlots]_vars

(***************************************************************************)
(* Repeated runs of the generator: between two runs the engine's entropy   *)
(* source moves on, and the caller keeps the earlier result.               *)
(***************************************************************************)
RecordRecentDraw == RecordDrawUpTo(MaxRepeatHistory)

\* Math.random is drawn from (generateFrequencyBasedPrediction does): the
\* engine's generator state moves on
MathRandom ==
    /\ call.op = "idle"
    /\ entropy' = (entropy + 1) % (MaxEntropy + 1)
    /\ UNCHANGED <<draws, call, ret, previous>>
    /\ UNCHANGED <<matchVars, storeVars>>

GenerateAgain == GenerateTopCombinationsOf(RepeatCounts)

\* the caller takes the generated combinations and keeps them
KeepResult ==
    /\ call.op = "generateTopCombinations"
    /\ previous' = [kept |-> TRUE, count |-> call.count, result |-> ret,
                     entropy |-> entropy]
    /\ call' = Idle
    /\ ret' = <<>>
    /\ UNCHANGED <<draws, entropy>>
    /\ UNCHANGED <<matchVars, storeVars>>

NextDeterminism ==
    \/ RecordRecentDraw
    \/ MathRandom
    \/ GenerateAgain
    \/ KeepResult

SpecDeterminism == Init /\ [][NextDeterminism]_vars

(***************************************************************************)
(* The frequency model (src/unnamed/part_000).                             *)
(*                                                                         *)
(* The double percentage = (count / total) * 100 is determined by the      *)
(* ratio count / total; it is held as that ratio in lowest terms, <<p, q>>, *)
(* and <<0, 1>> is the percentage 0.                                       *)
(***************************************************************************)
RECURSIVE gcd(_, _)
gcd(a, b) == IF b = 0 THEN a ELSE gcd(b, a % b)

\* total > 0 ? (data.count / total) * 100 : 0
percentageOf(count, total) ==
    IF total > 0 /\ count > 0
    THEN Bind(gcd(count, total), LAMBDA g : <<count \div g, total \div g>>)
    ELSE <<0, 1>>

\* count++ for every selection of every draw that is the number
countOf(number, ds, type) ==
    Bind(ds, LAMBDA d :
        Cardinality({ij \in UNION {{<<i, j>> : j \in DOMAIN pool(d[i], type)} : i \in DOMAIN d} :
                        pool(d[ij[1]], type)[ij[2]] = number}))

\* lastSeen left at the index of the scan: -1 for a number never seen
lastSeenRaw(lastIndex, total) == lastIndex

\* data.lastIndex === -1 ? total : data.lastIndex
lastSeenOf(lastIndex, total) == IF lastIndex = -1 THEN total ELSE lastIndex

\* the entries of the pool's numbers in the order of the Map (1, 2, ...), then
\* sorted by count descending
calculateFrequency(ds, type) ==
    Bind([number \in 1..maxNumber(type) |->
             Bind(countOf(number, ds, type), LAMBDA count :
                 [number |-> number,
                  count |-> count,
                  percentage |-> percentageOf(count, Len(ds)),
                  lastSeen |-> lastSeenOf(lastSeenIndex(number, ds, type), Len(ds))])],
         LAMBDA entries : SortDescBy(entries, LAMBDA f : f.count))

calculateNumberFrequency(ds) == calculateFrequency(ds, "numbers")
calculateStarFrequency(ds) == calculateFrequency(ds, "stars")

\* Array.prototype.slice(-n)
sliceLast(arr, n) ==
    Bind(arr, LAMBDA a : SubSeq(a, IF Len(a) < n THEN 1 ELSE Len(a) - n + 1, Len(a)))

\* arr.map((f) => f.number)
numbersOfEntries(arr) == [i \in DOMAIN arr |-> arr[i].number]

\* analyzeFrequency, without recentPatterns
analyzeFrequency(ds) ==
    Bind(calculateNumberFrequency(ds), LAMBDA numberFrequency :
    Bind(calculateStarFrequency(ds), LAMBDA starFrequency :
        [numberFrequency |-> numberFrequency,
         starFrequency |-> starFrequency,
         mostCommonNumbers |-> numbersOfEntries(slice0(numberFrequency, 10)),
         mostCommonStars |-> numbersOfEntries(slice0(starFrequency, 4)),
         leastCommonNumbers |-> numbersOfEntries(sliceLast(numberFrequency, 10)),
         leastCommonStars |-> numbersOfEntries(sliceLast(starFrequency, 4))]))

\* [...new Set(arr)]: the first occurrence of every element, in order
RECURSIVE unique(_)
unique(arr) ==
    IF arr = <<>> THEN <<>>
    ELSE Bind(unique(SubSeq(arr, 1, Len(arr) - 1)), LAMBDA u :
             IF includes(u, arr[Len(arr)]) THEN u ELSE Append(u, arr[Len(arr)]))

\* .filter((f) => f.lastSeen > 5): not seen in the last 5 draws
isDueNumber(f) == f.lastSeen > 5
\* .filter((f) => f.lastSeen > 3)
isDueStar(f) == f.lastSeen > 3

dueNumbersOf(analysis) ==
    numbersOfEntries(slice0(SelectSeq(analysis.numberFrequency, isDueNumber), 5))
dueStarsOf(analysis) ==
    numbersOfEntries(slice0(SelectSeq(analysis.starFrequency, isDueStar), 2))

\* the arrays the loop `while (selected.length < n)` can end with: every turn
\* pushes remaining[Math.floor(Math.random() * remaining.length)], any element
\* of top not yet selected
RECURSIVE fillRandomly(_, _, _)
fillRandomly(selected, top, n) ==
    IF Len(selected) >= n THEN {selected}
    ELSE Bind(without(top, selected), LAMBDA remaining :
             UNION { fillRandomly(Append(selected, remaining[k]), top, n) :
                         k \in DOMAIN remaining })

\* the predictions generateFrequencyBasedPrediction can return, with the due
\* lists it built on the way
generateFrequencyBasedPrediction(ds) ==
    Bind(analyzeFrequency(ds), LAMBDA analysis :
    Bind(dueNumbersOf(analysis), LAMBDA dueNumbers :
    Bind(dueStarsOf(analysis), LAMBDA dueStars :
    LET hotNumbers == slice0(analysis.mostCommonNumbers, 3)
        candidateNumbers == unique(hotNumbers \o dueNumbers)
        hotStars == slice0(analysis.mostCommonStars, 1)
        candidateStars == unique(hotStars \o dueStars)
    IN  { [numbers |-> SortAsc(numbers), stars |-> SortAsc(stars),
           dueNumbers |-> dueNumbers, dueStars |-> dueStars] :
              numbers \in fillRandomly(slice0(candidateNumbers, 5),
                                       slice0(analysis.mostCommonNumbers, 20), 5),
              stars \in fillRandomly(slice0(candidateStars, 2),
                                     analysis.mostCommonStars, 2) })))

(***************************************************************************)
(* hotColdAnalysis.ts                                                      *)
(***************************************************************************)
\* recentRate > midRate + 0.1 on the doubles recentCount / 10 and midCount / 20:
\* the exact comparison, and true as well where the sum is rounded down to just
\* below recentRate
isRising(recentCount, midCount) ==
    \/ 2 * recentCount > midCount + 2
    \/ <<recentCount, midCount>> = <<8, 14>>

\* recentRate < midRate - 0.1 on the same doubles: the exact comparison, and
\* true as well where the difference is rounded up to just above recentRate
isFalling(recentCount, midCount) ==
    \/ 2 * recentCount < midCount - 2
    \/ <<recentCount, midCount>> \in {<<3, 8>>, <<7, 16>>}

\* the entry analyzeTemperature pushes for num
temperatureOf(num, ds, type) ==
    Bind(appearancesIn(num, slice0(ds, 10), type), LAMBDA recentCount :
    Bind(appearancesIn(num, slice0(ds, 20), type), LAMBDA midCount :
    Bind(lastSeenIndex(num, ds, type), LAMBDA lastSeen :
        [number |-> num,
         appearances |-> recentCount,
         streakType |-> IF recentCount >= (IF type = "numbers" THEN 3 ELSE 4) THEN "hot"
                        ELSE IF lastSeen > 7 THEN "cold"
                        ELSE "neutral",
         streak |-> IF lastSeen = -1 THEN Len(ds) ELSE lastSeen,
         trend |-> IF isRising(recentCount, midCount) THEN "rising"
                   ELSE IF isFalling(recentCount, midCount) THEN "falling"
                   ELSE "stable"])))

analyzeTemperature(ds, type, maxNum) ==
    Bind([num \in 1..maxNum |-> temperatureOf(num, ds, type)], LAMBDA results :
        SortDescBy(results, LAMBDA r : r.appearances))

getHotNumbers(ds) ==
    SelectSeq(analyzeTemperature(ds, "numbers", 50),
              LAMBDA n : n.streakType = "hot" \/ n.appearances >= 3)
getColdNumbers(ds) ==
    SelectSeq(analyzeTemperature(ds, "numbers", 50),
              LAMBDA n : n.streakType = "cold" \/ n.streak > 5)
getHotStars(ds) ==
    SelectSeq(analyzeTemperature(ds, "stars", 12),
              LAMBDA n : n.streakType = "hot" \/ n.appearances >= 4)
getColdStars(ds) ==
    SelectSeq(analyzeTemperature(ds, "stars", 12),
              LAMBDA n : n.streakType = "cold" \/ n.streak > 3)
getOverdueNumbers(ds) ==
    numbersOfEntries(SelectSeq(analyzeTemperature(ds, "numbers", 50),
                               LAMBDA n : n.streak > 10))
getOverdueStars(ds) ==
    numbersOfEntries(SelectSeq(analyzeTemperature(ds, "stars", 12),
                               LAMBDA n : n.streak > 6))

analyzeHotCold(ds) ==
    [hotNumbers |-> getHotNumbers(ds),
     coldNumbers |-> getColdNumbers(ds),
     hotStars |-> getHotStars(ds),
     coldStars |-> getColdStars(ds),
     overdue |-> getOverdueNumbers(ds),
     overdueStars |-> getOverdueStars(ds)]

(***************************************************************************)
(* The callers of the frequency model and of the hot/cold analysis.        *)
(***************************************************************************)
CalculateFrequency ==
    /\ call.op = "idle"
    /\ \E type \in Types :
          /\ call' = [op |-> "calculateFrequency", type |-> type]
          /\ ret' = IF type = "numbers" THEN calculateNumberFrequency(draws)
                    ELSE calculateStarFrequency(draws)
    /\ UNCHANGED <<draws, entropy, previous>>
    /\ UNCHANGED <<matchVars, storeVars>>

\* Math.random decides which of the possible predictions is returned
GenerateFrequencyBasedPrediction ==
    /\ call.op = "idle"
    /\ \E p \in generateFrequencyBasedPrediction(draws) :
          /\ call' = [op |-> "generateFrequencyBasedPrediction",
                      dueNumbers |-> p.dueNumbers, dueStars |-> p.dueStars]
          /\ ret' = [numbers |-> p.numbers, stars |-> p.stars]
    /\ UNCHANGED <<draws, entropy, previous>>
    /\ UNCHANGED <<matchVars, storeVars>>

AnalyzeTemperature ==
    /\ call.op = "idle"
    /\ \E type \in Types :
          /\ call' = [op |-> "analyzeTemperature", type |-> type]
          /\ ret' = analyzeTemperature(draws, type, maxNumber(type))
    /\ UNCHANGED <<draws, entropy, previous>>
    /\ UNCHANGED <<matchVars, storeVars>>

AnalyzeHotCold ==
    /\ call.op = "idle"
    /\ call' = [op |-> "analyzeHotCold"]
    /\ ret' = analyzeHotCold(draws)
    /\ UNCHANGED <<draws, entropy, previous>>
    /\ UNCHANGED <<matchVars, storeVars>>

NextAnalysis ==
    \/ RecordDraw
    \/ CalculateFrequency
    \/ GenerateFrequencyBasedPrediction
    \/ AnalyzeTemperature
    \/ AnalyzeHotCold
    \/ Return

SpecAnalysis == Init /\ [][NextAnalysis]_vars

(***************************************************************************)
(* hotColdAnalysis.ts: the recommendation and its callers                  *)
(***************************************************************************)
getHotColdRecommendation(ds) ==
    Bind(analyzeHotCold(ds), LAMBDA analysis :
        [useHot |-> numbersOfEntries(slice0(analysis.hotNumbers, 5)),
         useOverdue |-> slice0(analysis.overdue, 3),
         avoidCold |-> numbersOfEntries(slice0(analysis.coldNumbers, 5)),
         hotStarsToUse |-> numbersOfEntries(slice0(analysis.hotStars, 2))])

\* these callers see histories of three different draws in up to
\* MaxHotColdRuns runs
RecordHotColdDraw ==
    /\ call.op = "idle"
    /\ Len(draws) < MaxHotColdHistory
    /\ \E d \in SlotDrawPool :
          /\ Runs(<<d>> \o draws) <= MaxHotColdRuns
          /\ draws' = <<d>> \o draws
    /\ previous' = None
    /\ UNCHANGED <<call, ret, entropy>>
    /\ UNCHANGED <<matchVars, storeVars>>

GetHotColdRecommendation ==
    /\ call.op = "idle"
    /\ call' = [op |-> "getHotColdRecommendation"]
    /\ ret' = getHotColdRecommendation(draws)
    /\ UNCHANGED <<draws, entropy, previous>>
    /\ UNCHANGED <<matchVars, storeVars>>

NextHotCold ==
    \/ RecordHotColdDraw
    \/ AnalyzeHotCold
    \/ GetHotColdRecommendation
    \/ Return

SpecHotCold == Init /\ [][NextHotCold]_vars

(***************************************************************************)
(* generateFrequencyBasedPrediction, one loop turn at a time               *)
(***************************************************************************)
\* analysis.mostCommonNumbers.slice(0, 20), the pool of the first filler loop
topNumbersHotOnly(analysis) == slice0(analysis.mostCommonNumbers, 3)
topNumbersOf(analysis) == slice0(analysis.mostCommonNumbers, 20)
\* analysis.mostCommonStars, the pool of the second filler loop
topStarsOf(analysis) == analysis.mostCommonStars

RecordPredictionDraw == RecordDrawUpTo(MaxPredictionHistory)

\* the call up to the first loop: the analysis and the candidates (the star
\* candidates depend on the analysis alone, so they are taken here)
StartPrediction ==
    /\ call.op = "idle"
    /\ \E analysis \in {analyzeFrequency(draws)} :
       \E dueNumbers \in {dueNumbersOf(analysis)} :
       \E dueStars \in {dueStarsOf(analysis)} :
          call' = [op |-> "predicting", pc |-> "fillNumbers",
                   dueNumbers |-> dueNumbers, dueStars |-> dueStars,
                   topNumbers |-> topNumbersOf(analysis),
                   topStars |-> topStarsOf(analysis),
                   selectedNumbers |->
                       slice0(unique(slice0(analysis.mostCommonNumbers, 3)
                                         \o dueNumbers), 5),
                   selectedStars |->
                       slice0(unique(slice0(analysis.mostCommonStars, 1)
                                         \o dueStars), 2)]
    /\ UNCHANGED <<draws, ret, entropy, previous>>
    /\ UNCHANGED <<matchVars, storeVars>>

\* one turn of `while (selectedNumbers.length < 5)`: with nothing remaining
\* the turn changes nothing and the loop tests again
FillNumbers ==
    /\ call.op = "predicting" /\ call.pc = "fillNumbers"
    /\ Len(call.selectedNumbers) < 5
    /\ \E remaining \in {without(call.topNumbers, call.selectedNumbers)} :
          IF Len(remaining) > 0
          THEN \E k \in DOMAIN remaining :
                  call' = [call EXCEPT !.selectedNumbers = Append(@, remaining[k])]
          ELSE call' = call
    /\ UNCHANGED <<draws, ret, entropy, previous>>
    /\ UNCHANGED <<matchVars, storeVars>>

\* the first loop's test fails: on to the stars
LeaveFillNumbers ==
    /\ call.op = "predicting" /\ call.pc = "fillNumbers"
    /\ Len(call.selectedNumbers) >= 5
    /\ call' = [call EXCEPT !.pc = "fillStars"]
    /\ UNCHANGED <<draws, ret, entropy, previous>>
    /\ UNCHANGED <<matchVars, storeVars>>

\* one turn of `while (selectedStars.length < 2)`
FillStars ==
    /\ call.op = "predicting" /\ call.pc = "fillStars"
    /\ Len(call.selectedStars) < 2
    /\ \E remaining \in {without(call.topStars, call.selectedStars)} :
          IF Len(remaining) > 0
          THEN \E k \in DOMAIN remaining :
                  call' = [call EXCEPT !.selectedStars = Append(@, remaining[k])]
          ELSE call' = call
    /\ UNCHANGED <<draws, ret, entropy, previous>>
    /\ UNCHANGED <<matchVars, storeVars>>

\* the second loop's test fails: both arrays are sorted and returned
FinishPrediction ==
    /\ call.op = "predicting" /\ call.pc = "fillStars"
    /\ Len(call.selectedStars) >= 2
    /\ call' = [op |-> "generateFrequencyBasedPrediction",
                dueNumbers |-> call.dueNumbers, dueStars |-> call.dueStars]
    /\ ret' = [numbers |-> SortAsc(call.selectedNumbers),
               stars |-> SortAsc(call.selectedStars)]
    /\ UNCHANGED <<draws, entropy, previous>>
    /\ UNCHANGED <<matchVars, storeVars>>

\* the caller takes the prediction
TakePrediction ==
    /\ call.op = "generateFrequencyBasedPrediction"
    /\ Return

\* the steps of a call that has started: the function runs to its return
\* without waiting for anything
PredictionStep ==
    \/ FillNumbers
    \/ LeaveFillNumbers
    \/ FillStars
    \/ FinishPrediction

NextPrediction ==
    \/ RecordPredictionDraw
    \/ StartPrediction
    \/ PredictionStep
    \/ TakePrediction

SpecPrediction == Init /\ [][NextPrediction]_vars /\ WF_vars(PredictionStep)

(***************************************************************************)
(* drawChecker.ts: bets against a draw                                     *)
(***************************************************************************)
\* the prize table keyed by match code (the jackpot label of the source
\* starts with a trophy sign and the amounts with the euro sign)
PRIZE_TIERS ==
    ("5+2" :> "JACKPOT!") @@ ("5+1" :> "EUR 300,000+") @@ ("5+0" :> "EUR 50,000+")
    @@ ("4+2" :> "EUR 3,000+") @@ ("4+1" :> "EUR 150+") @@ ("4+0" :> "EUR 50+")
    @@ ("3+2" :> "EUR 30+") @@ ("3+1" :> "EUR 12+") @@ ("2+2" :> "EUR 8+")
    @@ ("3+0" :> "EUR 10+") @@ ("1+2" :> "EUR 7+") @@ ("2+1" :> "EUR 5+")

\* the filter left out: every selection counts as matched
matchedAll(arr, other) == arr

\* arr.filter((n) => other.includes(n))
matched(arr, other) == SelectSeq(arr, LAMBDA n : includes(other, n))

\* the match code with the two counts exchanged
matchCodeStarsFirst(numberMatchCount, starMatchCount) ==
    ToString(starMatchCount) \o "+" \o ToString(numberMatchCount)

\* `${numberMatchCount}+${starMatchCount}`
matchCodeOf(numberMatchCount, starMatchCount) ==
    ToString(numberMatchCount) \o "+" \o ToString(starMatchCount)

\* the lookup without its default: an unlisted code yields undefined
prizeOfUndefined(matchCode) ==
    IF matchCode \in DOMAIN PRIZE_TIERS THEN PRIZE_TIERS[matchCode] ELSE "undefined"

\* PRIZE_TIERS[matchCode] || "No prize"
prizeOf(matchCode) ==
    IF matchCode \in DOMAIN PRIZE_TIERS THEN PRIZE_TIERS[matchCode] ELSE "No prize"

checkBet(bet, d) ==
    LET matchedNumbers == matched(bet.numbers, d.numbers)
        matchedStars == matched(bet.stars, d.stars)
        numberMatchCount == Len(matchedNumbers)
        starMatchCount == Len(matchedStars)
        matchCode == matchCodeOf(numberMatchCount, starMatchCount)
        prize == prizeOf(matchCode)
    IN  [ betId |-> bet.id,
          numbers |-> bet.numbers,
          stars |-> bet.stars,
          matchedNumbers |-> matchedNumbers,
          matchedStars |-> matchedStars,
          numberMatchCount |-> numberMatchCount,
          starMatchCount |-> starMatchCount,
          matchCode |-> matchCode,
          isWinner |-> (prize # "No prize"),
          prize |-> prize ]

\* bets.map((bet) => checkBet(bet, draw))
checkAllBets(bs, d) == [i \in DOMAIN bs |-> checkBet(bs[i], d)]

\* the sort key the comment of findClosestBet names: numbers + stars
closenessBySum(result) == result.numberMatchCount + result.starMatchCount

\* the sort key of findClosestBet
closeness(result) == result.numberMatchCount * 10 + result.starMatchCount

\* what findClosestBet returns for no bets
null == [betId |-> "null"]

\* findClosestBet sorting the array it was handed instead of its own results
findClosestBetSortingInput(bs, d) ==
    IF Len(bs) = 0 THEN [bets |-> bs, ret |-> null]
    ELSE LET sortedBets == SortDescBy(bs, LAMBDA b : closeness(checkBet(b, d)))
         IN  [bets |-> sortedBets, ret |-> checkBet(sortedBets[1], d)]

\* findClosestBet: the returned value, and the caller's array of bets as the
\* call leaves it (results is an array of the call's own, which it sorts)
findClosestBet(bs, d) ==
    IF Len(bs) = 0 THEN [bets |-> bs, ret |-> null]
    ELSE LET results == SortDescBy(checkAllBets(bs, d), closeness)
         IN  [bets |-> bs, ret |-> results[1]]

\* numberMatchCount >= 2 in place of the source's thresholds
hasHighPotentialFromTwo(result) == result.numberMatchCount >= 2
hasHighPotential(result) ==
    \/ result.numberMatchCount >= 4
    \/ (result.numberMatchCount >= 3 /\ result.starMatchCount >= 2)

\* the check-results route once it has its bets and its draw: the response
\* for no bets, and the four lists of the response otherwise
checkResults(bs, d) ==
    IF Len(bs) = 0 THEN [error |-> "No bets to check"]
    ELSE Bind(checkAllBets(bs, d), LAMBDA results :
            [results |-> results,
             closestBet |-> findClosestBet(bs, d).ret,
             winners |-> SelectSeq(results, LAMBDA r : r.isWinner),
             highPotential |-> SelectSeq(results, hasHighPotential)])

(***************************************************************************)
(* The callers of the draw checker.                                        *)
(***************************************************************************)
\* the draws bets are checked against
CheckedDraws ==
    { [date |-> "2024-01-02", numbers |-> <<1, 2, 3, 4, 5>>, stars |-> <<1, 2>>],
      [date |-> "2024-01-05", numbers |-> <<1, 2, 3, 50, 49>>, stars |-> <<3, 4>>] }

\* the selections of the bets: k of the numbers 1..5 for every k, the same in
\* another order, the numbers of the second draw, and selections no validation
\* has seen (a repeated number, six numbers, none)
BetNumbers ==
    { <<1, 2, 3, 4, 5>>, <<5, 4, 3, 2, 1>>, <<1, 2, 3, 4, 10>>, <<1, 2, 3, 10, 11>>,
      <<2, 1, 10, 11, 12>>, <<1, 10, 11, 12, 13>>, <<10, 11, 12, 13, 14>>,
      <<1, 1, 2, 3, 4, 5>>, <<>> }
BetStars == { <<1, 2>>, <<2, 1>>, <<1, 12>>, <<5, 6>>, <<3, 4>>, <<2, 2, 2>>, <<>> }

BetSelections == { [numbers |-> n, stars |-> s] : n \in BetNumbers, s \in BetStars }

\* the selections that lists of several bets are made of: equally close ones,
\* a 4+0 and a 3+2 one, and ill-formed ones
ListSelections ==
    { [numbers |-> <<1, 2, 3, 4, 5>>, stars |-> <<1, 2>>],
      [numbers |-> <<5, 4, 3, 2, 1>>, stars |-> <<2, 1>>],
      [numbers |-> <<1, 2, 3, 4, 10>>, stars |-> <<5, 6>>],
      [numbers |-> <<1, 2, 3, 10, 11>>, stars |-> <<1, 2>>],
      [numbers |-> <<1, 10, 11, 12, 13>>, stars |-> <<3, 4>>],
      [numbers |-> <<10, 11, 12, 13, 14>>, stars |-> <<5, 6>>],
      [numbers |-> <<1, 1, 2, 3, 4, 5>>, stars |-> <<2, 2, 2>>],
      [numbers |-> <<>>, stars |-> <<>>] }

\* the ids of the bets of a list
betId(i) == "bet-" \o ToString(i)

\* the caller takes a list of bets and a draw
SupplyBets ==
    /\ call.op = "idle"
    /\ \E n \in 0..MaxBets : \E l \in [1..n -> IF n <= 1 THEN BetSelections ELSE ListSelections] : \E d \in CheckedDraws :
          /\ bets' = [i \in 1..n |->
                         [id |-> betId(i), numbers |-> l[i].numbers, stars |-> l[i].stars]]
          /\ resultDraw' = d
          /\ supplied' = [bets |-> bets', draw |-> d]
    /\ UNCHANGED <<coreVars, storeVars>>

CheckBet ==
    /\ call.op = "idle"
    /\ \E i \in DOMAIN bets :
          /\ call' = [op |-> "checkBet", bet |-> bets[i]]
          /\ ret' = checkBet(bets[i], resultDraw)
    /\ UNCHANGED <<draws, entropy, previous>>
    /\ UNCHANGED <<matchVars, storeVars>>

CheckAllBets ==
    /\ call.op = "idle"
    /\ resultDraw # NoDraw
    /\ call' = [op |-> "checkAllBets"]
    /\ ret' = checkAllBets(bets, resultDraw)
    /\ UNCHANGED <<draws, entropy, previous>>
    /\ UNCHANGED <<matchVars, storeVars>>

FindClosestBet ==
    /\ call.op = "idle"
    /\ resultDraw # NoDraw
    /\ call' = [op |-> "findClosestBet"]
    /\ \E run \in {findClosestBet(bets, resultDraw)} :
          /\ ret' = run.ret
          /\ bets' = run.bets
    /\ UNCHANGED <<draws, entropy, previous>>
    /\ UNCHANGED <<resultDraw, supplied, storeVars>>

\* POST /api/check-results with the bets and the draw it found
CheckResults ==
    /\ call.op = "idle"
    /\ resultDraw # NoDraw
    /\ call' = [op |-> "checkResults"]
    /\ ret' = checkResults(bets, resultDraw)
    /\ UNCHANGED <<draws, entropy, previous>>
    /\ UNCHANGED <<matchVars, storeVars>>

NextChecker ==
    \/ SupplyBets
    \/ CheckBet
    \/ CheckAllBets
    \/ FindClosestBet
    \/ CheckResults
    \/ Return

SpecChecker == Init /\ [][NextChecker]_vars

(***************************************************************************)
(* The bet store (src/src/app/api/latest/route.ts, lines 72-213): the      *)
(* handlers POST and DELETE, one step per await.  createdAt is left out.   *)
(***************************************************************************)
\* the message of the first validation that rejects the body, "" when none does
validationError(body) ==
    IF ~body.numbersIsArray \/ Len(body.numbers) # 5
        THEN "Must provide exactly 5 numbers"
    ELSE IF Len(body.stars) # 2
        THEN "Must provide exactly 2 stars"
    ELSE IF \E i \in DOMAIN body.numbers : body.numbers[i] < 1 \/ body.numbers[i] > 50
        THEN "Numbers must be between 1 and 50"
    ELSE IF \E i \in DOMAIN body.stars : body.stars[i] < 1 \/ body.stars[i] > 12
        THEN "Stars must be between 1 and 12"
    ELSE ""

\* crypto.randomUUID(): an id no earlier call returned
randomUUID(n) == "id-" \o ToString(n + 1)

\* the JSON bodies clients post
PostBodies ==
    { [numbersIsArray |-> TRUE, numbers |-> <<1, 2, 3, 4, 5>>, stars |-> <<1, 2>>],
      [numbersIsArray |-> TRUE, numbers |-> <<50, 7, 21, 3, 44>>, stars |-> <<12, 1>>],
      [numbersIsArray |-> FALSE, numbers |-> <<>>, stars |-> <<1, 2>>],
      [numbersIsArray |-> TRUE, numbers |-> <<1, 2, 3, 4>>, stars |-> <<1, 2>>],
      [numbersIsArray |-> TRUE, numbers |-> <<1, 2, 3, 4, 5>>, stars |-> <<1, 2, 3>>],
      [numbersIsArray |-> TRUE, numbers |-> <<0, 2, 3, 4, 5>>, stars |-> <<1, 2>>],
      [numbersIsArray |-> TRUE, numbers |-> <<1, 2, 3, 4, 51>>, stars |-> <<1, 2>>],
      [numbersIsArray |-> TRUE, numbers |-> <<1, 2, 3, 4, 5>>, stars |-> <<1, 13>>],
      [numbersIsArray |-> TRUE, numbers |-> <<1, 1, 2, 3, 4>>, stars |-> <<1, 2>>],
      [numbersIsArray |-> TRUE, numbers |-> <<1, 2, 3, 4, 5>>, stars |-> <<3, 3>>] }

\* the id parameters clients send with DELETE: none, and ids handed out or not
DeleteIds == {""} \cup {randomUUID(n) : n \in 0..MaxStored}

\* POST up to the first await of readBets: validation, then newBet
StartPost(h) ==
    /\ requests[h].pc = "done"
    /\ nextId < MaxStored
    /\ \E body \in PostBodies :
          IF validationError(body) # ""
          THEN /\ requests' = [requests EXCEPT ![h] =
                      [NoRequest EXCEPT !.method = "POST", !.body = body, !.status = 400]]
               /\ UNCHANGED nextId
          ELSE /\ requests' = [requests EXCEPT ![h] =
                      [NoRequest EXCEPT !.pc = "readBets", !.method = "POST", !.body = body,
                          !.newBet = [id |-> randomUUID(nextId),
                                      numbers |-> SortAsc(body.numbers),
                                      stars |-> SortAsc(body.stars)]]]
               /\ nextId' = nextId + 1
    /\ UNCHANGED betFile
    /\ UNCHANGED <<coreVars, matchVars>>

\* const bets = await readBets(); bets.push(newBet)
PostReadBets(h) ==
    /\ requests[h].method = "POST"
    /\ requests[h].pc = "readBets"
    /\ requests' = [requests EXCEPT ![h].pc = "writeBets",
                                    ![h].bets = Append(betFile, requests[h].newBet)]
    /\ UNCHANGED <<betFile, nextId>>
    /\ UNCHANGED <<coreVars, matchVars>>

\* await writeBets(bets), and the response
PostWriteBets(h) ==
    /\ requests[h].method = "POST"
    /\ requests[h].pc = "writeBets"
    /\ betFile' = requests[h].bets
    /\ requests' = [requests EXCEPT ![h].pc = "done", ![h].status = 200]
    /\ UNCHANGED nextId
    /\ UNCHANGED <<coreVars, matchVars>>

\* DELETE up to the first await of readBets
StartDelete(h) ==
    /\ requests[h].pc = "done"
    /\ \E id \in DeleteIds :
          requests' = [requests EXCEPT ![h] =
              IF id = ""
              THEN [NoRequest EXCEPT !.method = "DELETE", !.status = 400]
              ELSE [NoRequest EXCEPT !.pc = "readBets", !.method = "DELETE", !.id = id]]
    /\ UNCHANGED <<betFile, nextId>>
    /\ UNCHANGED <<coreVars, matchVars>>

\* const bets = await readBets(); filteredBets; 404 when nothing was removed
DeleteReadBets(h) ==
    /\ requests[h].method = "DELETE"
    /\ requests[h].pc = "readBets"
    /\ \E filteredBets \in {SelectSeq(betFile, LAMBDA b : b.id # requests[h].id)} :
          requests' = [requests EXCEPT ![h] =
              IF Len(betFile) = Len(filteredBets)
              THEN [@ EXCEPT !.pc = "done", !.status = 404]
              ELSE [@ EXCEPT !.pc = "writeBets", !.bets = filteredBets]]
    /\ UNCHANGED <<betFile, nextId>>
    /\ UNCHANGED <<coreVars, matchVars>>

\* await writeBets(filteredBets), and the response
DeleteWriteBets(h) ==
    /\ requests[h].method = "DELETE"
    /\ requests[h].pc = "writeBets"
    /\ betFile' = requests[h].bets
    /\ requests' = [requests EXCEPT ![h].pc = "done", ![h].status = 200]
    /\ UNCHANGED nextId
    /\ UNCHANGED <<coreVars, matchVars>>

Post == \E h \in 1..MaxRequests : StartPost(h) \/ PostReadBets(h) \/ PostWriteBets(h)
Delete == \E h \in 1..MaxRequests : StartDelete(h) \/ DeleteReadBets(h) \/ DeleteWriteBets(h)

NextBetStore ==
    \/ Post
    \/ Delete

SpecBetStore == Init /\ [][NextBetStore]_vars

\* the store under POST requests alone: up to MaxRequests of them in flight
NextPosts == Post

SpecPosts == Init /\ [][NextPosts]_vars

(***************************************************************************)
(* Properties                                                              *)
(***************************************************************************)
isDistinct(arr) == \A i, j \in DOMAIN arr : i # j => arr[i] # arr[j]
isSortedAscending(arr) == \A i \in 1..(Len(arr) - 1) : arr[i] <= arr[i + 1]
isWellFormed(c) ==
    /\ Len(c.numbers) = 5
    /\ \A i \in DOMAIN c.numbers : c.numbers[i] \in 1..50
    /\ isDistinct(c.numbers)
    /\ Len(c.stars) = 2
    /\ \A i \in DOMAIN c.stars : c.stars[i] \in 1..12
    /\ isDistinct(c.stars)
occurrences(arr, x) == Cardinality({i \in DOMAIN arr : arr[i] = x})
isPermutation(a, b) ==
    /\ Len(a) = Len(b)
    /\ \A i \in DOMAIN a : occurrences(a, a[i]) = occurrences(b, a[i])
pairsOf(combinations) ==
    [i \in DOMAIN combinations |->
        [numbers |-> combinations[i].numbers, stars |-> combinations[i].stars]]
\* a >= b on scores, false when either is NaN
notLess(a, b) == a # NaN /\ b # NaN /\ a >= b

\* C1: for every history and every count k in 1..10, generateTopCombinations
\* returns exactly k combinations, each with 5 pairwise distinct numbers in
\* 1..50 and 2 distinct stars in 1..12.
C1_ExactlyKWellFormed ==
    (call.op = "generateTopCombinations" /\ call.count \in 1..10)
        => /\ Len(ret) = call.count
           /\ \A i \in DOMAIN ret : isWellFormed(ret[i])

\* C1 happens: ten combinations, the weighted-random slots among them, generated
\* from a history of ten draws or more
C1_Witness ==
    /\ call.op = "generateTopCombinations"
    /\ call.count = 10
    /\ Len(draws) >= 10
    /\ Len(ret) = 10
    /\ \A i \in DOMAIN ret : isWellFormed(ret[i])

\* C2: the sequences returned by generateTopCombinations and by rankCombinations
\* are ordered by probabilityScore non-increasing, the element at position i
\* (from 0) carries rank i + 1, and rankCombinations returns a permutation of
\* the supplied pairs.
C2_OrderedAndRanked ==
    (call.op \in {"generateTopCombinations", "rankCombinations"})
        => /\ \A i \in 1..(Len(ret) - 1) :
                 notLess(ret[i].probabilityScore, ret[i + 1].probabilityScore)
           /\ \A i \in DOMAIN ret : ret[i].rank = i
           /\ call.op = "rankCombinations"
                 => isPermutation(pairsOf(ret), call.combinations)

\* C3: for every integer count generateTopCombinations returns exactly
\* min(10, max(1, count)) combinations: 1 for count <= 0, 10 for count > 10.
C3_CountClamped ==
    (call.op = "generateTopCombinations")
        => Len(ret) = (IF call.count <= 0 THEN 1
                       ELSE IF call.count > 10 THEN 10 ELSE call.count)

\* C3 happens: a count below the range yields one combination
C3_Witness ==
    /\ call.op = "generateTopCombinations"
    /\ call.count <= 0
    /\ draws # <<>>
    /\ Len(ret) = 1

\* C4: calculateNumberProbability returns frequencyScore in [0,40], hotColdScore
\* in [0,30], patternScore in [0,20], overdueScore in [0,10], totalScore equal
\* to the sum of the four, and winChance equal to totalScore.
C4_SubScoresAndWinChance ==
    (call.op = "calculateNumberProbability")
        => /\ ret.frequencyScore \in 0..40
           /\ ret.hotColdScore \in 0..30
           /\ ret.patternScore \in 0..20
           /\ ret.overdueScore \in 0..10
           /\ ret.totalScore = ret.frequencyScore + ret.hotColdScore
                               + ret.patternScore + ret.overdueScore
           /\ ret.winChance = <<ret.totalScore, 0>>

\* C5: for every history and every well-formed combination, scoreCombination
\* returns a probabilityScore in [0,100] and a winChance of at most 15.00, which
\* is probabilityScore / 100 * 15 (both rounded, to one and to two decimals).
C5_ScoreBounded ==
    (call.op = "scoreCombination" /\ isWellFormed(call))
        => /\ ret.probabilityScore \in 0..1000
           /\ ret.winChance \in 0..1500
           /\ 2 * ret.winChance - 3 * ret.probabilityScore \in (-2)..2

\* C5 happens: a well-formed combination, out of order, scored on a history of
\* twenty draws or more
C5_Witness ==
    /\ call.op = "scoreCombination"
    /\ isWellFormed(call)
    /\ Len(draws) >= 20
    /\ ret.probabilityScore > 500
    /\ ret.winChance > 750

\* C6: scoreCombination called with both numbers and stars empty returns a
\* defined probabilityScore of 0, not NaN.
C6_EmptyScoresZero ==
    (call.op = "scoreCombination" /\ call.numbers = <<>> /\ call.stars = <<>>)
        => ret.probabilityScore = 0

\* C7: scoreCombination is invariant to the order of its arguments: every
\* permutation of the same numbers and of the same stars gets the same
\* probabilityScore, winChance and breakdown on the same history.
C7_OrderInvariant ==
    (call.op = "scoreCombination")
        => \A in \in ScoreInputs :
              (isPermutation(in.numbers, call.numbers)
                  /\ isPermutation(in.stars, call.stars))
                 => LET other == scoreCombination(in.numbers, in.stars, draws)
                    IN  /\ other.probabilityScore = ret.probabilityScore
                        /\ other.winChance = ret.winChance
                        /\ other.breakdown = ret.breakdown

\* C7 happens: numbers and stars handed over out of order are scored on a
\* history that scores the two stars differently, and a combination of other
\* values scores differently
C7_Witness ==
    /\ call.op = "scoreCombination"
    /\ ~isSortedAscending(call.numbers)
    /\ ~isSortedAscending(call.stars)
    /\ calculateNumberProbability(call.stars[1], draws, "stars").totalScore
          # calculateNumberProbability(call.stars[2], draws, "stars").totalScore
    /\ \E in \in ScoreInputs :
          /\ ~isPermutation(in.numbers, call.numbers)
          /\ scoreCombination(in.numbers, in.stars, draws).probabilityScore
                # ret.probabilityScore

\* C8: every CombinationScore returned by scoreCombination has its numbers
\* sorted ascending and its stars sorted ascending, whatever order the caller
\* supplied them in.
C8_ReturnedSorted ==
    (call.op = "scoreCombination")
        => /\ isSortedAscending(ret.numbers)
           /\ isSortedAscending(ret.stars)

\* C9: getAllNumberProbabilities returns exactly one entry per number of the
\* pool (50 numbers, 12 stars), ordered by totalScore non-increasing, entries
\* of equal totalScore in ascending number order.
C9_AllSortedStable ==
    (call.op = "getAllNumberProbabilities")
        => /\ Len(ret) = (IF call.type = "numbers" THEN 50 ELSE 12)
           /\ {ret[i].number : i \in DOMAIN ret} = 1..Len(ret)
           /\ \A i \in 1..(Len(ret) - 1) :
                 \/ ret[i].totalScore > ret[i + 1].totalScore
                 \/ /\ ret[i].totalScore = ret[i + 1].totalScore
                    /\ ret[i].number < ret[i + 1].number

\* C9 happens: on a history that gives the numbers several different scores,
\* some of them equal, a lower number comes after a higher one
C9_Witness ==
    /\ call.op = "getAllNumberProbabilities"
    /\ call.type = "numbers"
    /\ Len(draws) >= 10
    /\ Len(ret) = 50
    /\ Cardinality({ret[i].totalScore : i \in DOMAIN ret}) >= 4
    /\ \E i \in 1..49 : ret[i].totalScore = ret[i + 1].totalScore
    /\ \E i \in 1..49 : ret[i].number > ret[i + 1].number

elements(arr) == {arr[i] : i \in DOMAIN arr}

\* C11: for every well-formed bet and draw, checkBet returns as matchedNumbers
\* and matchedStars exactly the bet's numbers and stars that occur in the draw,
\* as numberMatchCount and starMatchCount the sizes of those intersections and
\* as matchCode "{numberMatchCount}+{starMatchCount}"; a bet whose selections
\* equal the draw's yields "5+2", the jackpot prize and isWinner = true.
C11_IntersectionAndCode ==
    (call.op = "checkBet" /\ isWellFormed(call.bet) /\ isWellFormed(resultDraw))
        => /\ elements(ret.matchedNumbers)
                 = elements(call.bet.numbers) \cap elements(resultDraw.numbers)
           /\ elements(ret.matchedStars)
                 = elements(call.bet.stars) \cap elements(resultDraw.stars)
           /\ isDistinct(ret.matchedNumbers) /\ isDistinct(ret.matchedStars)
           /\ ret.numberMatchCount
                 = Cardinality(elements(call.bet.numbers) \cap elements(resultDraw.numbers))
           /\ ret.starMatchCount
                 = Cardinality(elements(call.bet.stars) \cap elements(resultDraw.stars))
           /\ \A n \in 0..5, s \in 0..2 :
                 (ret.numberMatchCount = n /\ ret.starMatchCount = s)
                     => ret.matchCode = <<"0+0", "0+1", "0+2", "1+0", "1+1", "1+2",
                                          "2+0", "2+1", "2+2", "3+0", "3+1", "3+2",
                                          "4+0", "4+1", "4+2", "5+0", "5+1", "5+2">>[3 * n + s + 1]
           /\ (/\ elements(call.bet.numbers) = elements(resultDraw.numbers)
               /\ elements(call.bet.stars) = elements(resultDraw.stars))
                 => /\ ret.matchCode = "5+2"
                    /\ ret.prize = "JACKPOT!"
                    /\ ret.isWinner = TRUE

\* C11 happens: a bet holding the draw's numbers and stars, in another order,
\* has been checked and won the jackpot
C11_Witness ==
    /\ call.op = "checkBet"
    /\ call.bet.numbers = <<5, 4, 3, 2, 1>>
    /\ call.bet.stars = <<2, 1>>
    /\ resultDraw.numbers = <<1, 2, 3, 4, 5>>
    /\ resultDraw.stars = <<1, 2>>
    /\ ret.matchCode = "5+2"
    /\ ret.isWinner = TRUE

\* the call the example of C12 makes
C12_Case ==
    /\ call.op = "checkBet"
    /\ call.bet.numbers = <<1, 2, 3, 4, 5>>
    /\ call.bet.stars = <<1, 2>>
    /\ resultDraw.numbers = <<1, 2, 3, 50, 49>>
    /\ resultDraw.stars = <<3, 4>>

\* C12 as stated: checkBet of the bet numbers [1,2,3,4,5], stars [1,2] against
\* the draw numbers [1,2,3,50,49], stars [3,4] returns matchCode "2+0", prize
\* "No prize" and isWinner = false.
C12_TwoNumbersMatch ==
    C12_Case => /\ ret.matchCode = "2+0"
                /\ ret.prize = "No prize"
                /\ ret.isWinner = FALSE

\* C12 amended: three numbers of the bet (1, 2 and 3) occur in that draw and no
\* star, so checkBet returns matchCode "3+0", the prize of the 3+0 tier and
\* isWinner = true.
C12_ThreeNumbersMatch ==
    C12_Case => /\ ret.matchedNumbers = <<1, 2, 3>>
                /\ ret.matchedStars = <<>>
                /\ ret.matchCode = "3+0"
                /\ ret.prize = "EUR 10+"
                /\ ret.isWinner = TRUE

\* C12 happens: the example's bet has been checked against the example's draw
C12_Witness == C12_Case /\ ret.numberMatchCount = 3 /\ ret.starMatchCount = 0

\* the number of selections of arr that occur in other
matchCount(arr, other) == Cardinality({i \in DOMAIN arr : includes(other, arr[i])})
closenessOf(bet, d) ==
    matchCount(bet.numbers, d.numbers) * 10 + matchCount(bet.stars, d.stars)

WinningCodes ==
    {"5+2", "5+1", "5+0", "4+2", "4+1", "4+0", "3+2", "3+1", "2+2", "3+0", "1+2", "2+1"}

\* C14: for every bet and draw checkBet returns a result (it raises no error)
\* in which isWinner is true exactly when the matchCode is one of the twelve
\* codes of the prize table; for every other matchCode the prize is "No prize"
\* and isWinner is false.
C14_WinnerIffListed ==
    (call.op = "checkBet")
        => /\ DOMAIN ret = {"betId", "numbers", "stars", "matchedNumbers", "matchedStars",
                            "numberMatchCount", "starMatchCount", "matchCode",
                            "isWinner", "prize"}
           /\ ret.isWinner = (ret.matchCode \in WinningCodes)
           /\ ret.matchCode \in WinningCodes => ret.prize # "No prize"
           /\ ret.matchCode \notin WinningCodes
                 => (ret.prize = "No prize" /\ ret.isWinner = FALSE)

\* C14 happens: a bet of six numbers and three stars, all of them matching, has
\* a code outside the table and wins nothing
C14_Witness ==
    /\ call.op = "checkBet"
    /\ ret.matchCode = "6+3"
    /\ ret.prize = "No prize"
    /\ ret.isWinner = FALSE

\* C19: the matching operations have no effect on their inputs: after any
\* sequence of checkBet, checkAllBets and findClosestBet calls the caller's list
\* of bets has the order it was supplied in, every bet its id, numbers and
\* stars, and the draw is the one supplied.
C19_InputsUnchanged ==
    /\ Len(bets) = Len(supplied.bets)
    /\ \A i \in DOMAIN bets :
          /\ bets[i].id = supplied.bets[i].id
          /\ bets[i].numbers = supplied.bets[i].numbers
          /\ bets[i].stars = supplied.bets[i].stars
    /\ resultDraw = supplied.draw

\* C19 happens: findClosestBet has returned the last of three bets, which its
\* own result list holds first, and the caller's list still holds it last
C19_Witness ==
    /\ call.op = "findClosestBet"
    /\ Len(bets) = 3
    /\ closenessOf(bets[1], resultDraw) < closenessOf(bets[2], resultDraw)
    /\ closenessOf(bets[2], resultDraw) < closenessOf(bets[3], resultDraw)
    /\ ret.betId = "bet-3"
    /\ bets[3].id = "bet-3"

\* number occurs in no draw of ds, in the selections of its pool
neverDrawn(number, ds, type) ==
    \A i \in DOMAIN ds : ~includes(pool(ds[i], type), number)

\* C15: for either pool and every history length, the empty history included, a
\* number that occurs in no draw of the history receives the overdue sub-score 10.
C15_AbsentOverdueTen ==
    (call.op = "calculateNumberProbability" /\ neverDrawn(call.number, draws, call.type))
        => ret.overdueScore = 10

\* C15 happens: a star absent from a history of a few draws, in which a star
\* that was just drawn scores 2, has been scored
C15_Witness ==
    /\ call.op = "calculateNumberProbability"
    /\ call.type = "stars"
    /\ Len(draws) \in 1..6
    /\ neverDrawn(call.number, draws, call.type)
    /\ calculateOverdueScore(draws[1].stars[1], draws, "stars") = 2
    /\ ret.overdueScore = 10

\* the draws of ds that hold number, counted once per selection
occurrencesInHistory(number, ds, type) ==
    LET RECURSIVE sum(_)
        sum(i) == IF i = 0 THEN 0
                  ELSE sum(i - 1) + occurrences(pool(ds[i], type), number)
    IN  sum(Len(ds))

\* C16: calculateNumberFrequency and calculateStarFrequency return one entry for
\* every number of the pool's range, zero-count numbers included, ordered by
\* count non-increasing; an entry's count is the number's occurrences, its
\* percentage count / |history| x 100 (0 for the empty history), its lastSeen
\* the smallest draw index holding the number, or |history| when none does.
C16_FrequencyEntries ==
    (call.op = "calculateFrequency")
        => /\ Len(ret) = maxNumber(call.type)
           /\ \A n \in 1..maxNumber(call.type) :
                 Cardinality({i \in DOMAIN ret : ret[i].number = n}) = 1
           /\ \A i \in 1..(Len(ret) - 1) : ret[i].count >= ret[i + 1].count
           /\ \A i \in DOMAIN ret :
                 /\ ret[i].count = occurrencesInHistory(ret[i].number, draws, call.type)
                 /\ ret[i].percentage[2] > 0
                 /\ IF draws = <<>> THEN ret[i].percentage[1] = 0
                    ELSE ret[i].percentage[1] * Len(draws)
                             = ret[i].percentage[2] * ret[i].count
                 /\ IF neverDrawn(ret[i].number, draws, call.type)
                    THEN ret[i].lastSeen = Len(draws)
                    ELSE /\ ret[i].lastSeen \in 0..(Len(draws) - 1)
                         /\ includes(pool(draws[ret[i].lastSeen + 1], call.type),
                                     ret[i].number)
                         /\ neverDrawn(ret[i].number,
                                       SubSeq(draws, 1, ret[i].lastSeen), call.type)

\* C16 happens: the frequencies of a history of two different draws repeated
\* hold a number of count 0, and a number last seen behind the most recent draws
C16_Witness ==
    /\ call.op = "calculateFrequency"
    /\ call.type = "numbers"
    /\ Len(draws) >= 8
    /\ Len(ret) = 50
    /\ \E i, j \in DOMAIN ret :
          /\ ret[i].count = 0 /\ ret[i].lastSeen = Len(draws)
          /\ ret[j].count > 0 /\ ret[j].lastSeen >= 5
          /\ ret[j].percentage[2] > 1

\* the state of the entry of a number under the stated rule of C17
statedStreakType(number, ds, type) ==
    LET recent == Cardinality({i \in DOMAIN ds : i <= 10 /\ includes(pool(ds[i], type), number)})
        seenAt == {i \in DOMAIN ds : includes(pool(ds[i], type), number)}
        streak == IF seenAt = {} THEN Len(ds)
                  ELSE (CHOOSE i \in seenAt : \A j \in seenAt : i <= j) - 1
    IN  IF recent >= (IF type = "numbers" THEN 3 ELSE 4) THEN "hot"
        ELSE IF streak > 7 THEN "cold"
        ELSE "neutral"

\* C17: the hot/cold classifier assigns streakType hot when the number appears
\* at least 3 times (stars: 4 times) in the 10 most recent draws; otherwise cold
\* when the reported streak (draws since last seen, |history| for a number that
\* never appears) is greater than 7; otherwise neutral.  A non-hot number absent
\* from a history of more than 7 draws is cold.
C17_StreakType ==
    (call.op = "analyzeTemperature")
        => \A i \in DOMAIN ret :
              /\ ret[i].streakType = statedStreakType(ret[i].number, draws, call.type)
              /\ (ret[i].streakType # "hot" /\ ret[i].streak > 7)
                    => ret[i].streakType = "cold"

\* the numbers of a pool that occur in none of the n most recent draws
absentFromRecent(ds, type, n) ==
    {number \in 1..maxNumber(type) : neverDrawn(number, slice0(ds, n), type)}

\* C18: in the frequency-based combination builder a number counts as due
\* exactly when it occurs in none of the 5 most recent draws, a star when it
\* occurs in none of the 3 most recent draws (last seen at index 5, or 3, is
\* due): the due lists are the first 5 such numbers and the first 2 such stars
\* in frequency order.
C18_DueIffAbsentFromRecent ==
    (call.op = "generateFrequencyBasedPrediction")
        => /\ call.dueNumbers
                 = slice0(SelectSeq(numbersOfEntries(calculateNumberFrequency(draws)),
                              LAMBDA n : n \in absentFromRecent(draws, "numbers", 5)), 5)
           /\ call.dueStars
                 = slice0(SelectSeq(numbersOfEntries(calculateStarFrequency(draws)),
                              LAMBDA n : n \in absentFromRecent(draws, "stars", 3)), 2)

\* C20: after any sequence of store-bet POST and DELETE requests every bet held
\* in the bet store has exactly 5 pairwise distinct numbers in 1..50 and exactly
\* 2 distinct stars in 1..12; a POST whose body violates the count, the range
\* or the uniqueness requirement is answered with status 400 and stores nothing.
C20_StoredBetsWellFormed ==
    /\ \A i \in DOMAIN betFile : isWellFormed(betFile[i])
    /\ \A h \in 1..MaxRequests :
          (requests[h].method = "POST"
              /\ ~(requests[h].body.numbersIsArray /\ isWellFormed(requests[h].body)))
                => /\ requests[h].pc = "done"
                   /\ requests[h].status = 400

\* the sub-scores of the 7 selections of the scoreCombination call
selectionScores ==
    [i \in DOMAIN call.numbers |->
        calculateNumberProbability(call.numbers[i], draws, "numbers")]
    \o [i \in DOMAIN call.stars |->
        calculateNumberProbability(call.stars[i], draws, "stars")]

\* the sum of field f over the selections, and its average in tenths
plainTotal(f) ==
    LET RECURSIVE sum(_)
        sum(i) == IF i = 0 THEN 0 ELSE sum(i - 1) + selectionScores[i][f]
    IN  sum(Len(selectionScores))
plainAverage(f) == RoundDiv(10 * plainTotal(f), Len(selectionScores))

\* the balance bonus of the numbers of the call
statedBalanceBonus ==
    LET evenCount == Cardinality({i \in DOMAIN call.numbers : call.numbers[i] % 2 = 0})
        lowCount == Cardinality({i \in DOMAIN call.numbers : call.numbers[i] <= 25})
    IN  (IF evenCount \in {2, 3} THEN 3 ELSE 0) + (IF lowCount \in {2, 3} THEN 3 ELSE 0)

\* |a - b| <= d
within(a, b, d) == a - b <= d /\ b - a <= d

\* C21: for every history and well-formed combination the breakdown of
\* scoreCombination holds the plain averages, rounded to one decimal, of the
\* frequency, hot/cold, pattern and overdue sub-scores over the 7 selections,
\* and probabilityScore is min(100, the four breakdown fields + balanceBonus)
\* up to rounding (here: 0.3).
C21_BreakdownPlainAverages ==
    (call.op = "scoreCombination" /\ Len(call.numbers) = 5 /\ Len(call.stars) = 2)
        => /\ ret.breakdown.frequencyScore = plainAverage("frequencyScore")
           /\ ret.breakdown.hotColdScore = plainAverage("hotColdScore")
           /\ ret.breakdown.patternScore = plainAverage("patternScore")
           /\ ret.breakdown.overdueScore = plainAverage("overdueScore")
           /\ LET total == ret.breakdown.frequencyScore + ret.breakdown.hotColdScore
                           + ret.breakdown.patternScore + ret.breakdown.overdueScore
                           + 10 * statedBalanceBonus
              IN  within(ret.probabilityScore, IF total > 1000 THEN 1000 ELSE total, 3)

\* 20 x Math.max(0.5, 1 - 0.05 x i)
statedMultiplier(i) == IF 20 - i < 10 THEN 10 ELSE 20 - i

\* the confidence of slot call.index is (probabilityScore / 100) x
\* max(0.5, 1 - 0.05 x i) formatted to two decimals (at most 0.005 from it), and
\* no later slot with the same probabilityScore has a higher confidence
C22_FormattedAndMonotone ==
    /\ within(200 * ret.confidence, ret.probabilityScore * statedMultiplier(call.index), 100)
    /\ \A j \in call.index..9 :
          /\ statedMultiplier(j) <= statedMultiplier(call.index)
          /\ calculateConfidence(ret.probabilityScore, j) <= ret.confidence

RECURSIVE admittedUpTo(_, _)
admittedUpTo(top, k) ==
    IF k = 0 THEN {}
    ELSE Bind(admittedUpTo(top, k - 1), LAMBDA before :
             IF Cardinality(before) >= 5 THEN before
             ELSE IF Cardinality(before) >= 3
                     /\ \E n \in before : n - top[k] = 1 \/ top[k] - n = 1
                  THEN before
             ELSE before \cup {top[k]})

\* the numbers, and the stars, of the score-ranked lists of the history
rankedNumbers == numbersOf(getAllNumberProbabilities(draws, "numbers"))
rankedStars == numbersOf(getAllNumberProbabilities(draws, "stars"))

\* C23: the numbers of the best slot (slot 0) are the three highest entries of
\* the score-ranked list and the next two entries of the top 15, in rank order,
\* that are not adjacent to a number admitted before them; the walk over the
\* top 15 always admits 5 numbers (the backfill adds nothing); the stars are
\* the two highest-scored stars.
C23_BestSlotGreedy ==
    (call.op = "generateSlot" /\ call.index = 0)
        => \A top \in {rankedNumbers} : \A admitted \in {admittedUpTo(top, 15)} :
           \A topStars \in {rankedStars} :
              /\ Cardinality(admitted) = 5
              /\ elements(ret.numbers) = admitted
              /\ {top[1], top[2], top[3]} \subseteq elements(ret.numbers)
              /\ Len(ret.numbers) = 5
              /\ elements(ret.stars) = {topStars[1], topStars[2]}
              /\ Len(ret.stars) = 2

\* C23 happens: in the best slot of a history the walk has passed over one of
\* the five highest entries, adjacent to an admitted number
C23_Witness ==
    /\ call.op = "generateSlot"
    /\ call.index = 0
    /\ draws # <<>>
    /\ \E top \in {rankedNumbers} : \E k \in 4..5 : ~includes(ret.numbers, top[k])
    /\ Len(ret.numbers) = 5

\* C24: the 5 numbers of the pattern-balanced slot (slot 2) contain at most 3
\* even, at most 3 odd, at most 3 low (<= 25) and at most 3 high numbers, so
\* the combination earns both balance bonuses.
C24_PatternSlotBalanced ==
    (call.op = "generateSlot" /\ call.index = 2)
        => LET evens == Cardinality({i \in DOMAIN ret.numbers : ret.numbers[i] % 2 = 0})
               lows == Cardinality({i \in DOMAIN ret.numbers : ret.numbers[i] <= 25})
           IN  /\ evens <= 3 /\ Len(ret.numbers) - evens <= 3
               /\ lows <= 3 /\ Len(ret.numbers) - lows <= 3

\* a filler loop of generateFrequencyBasedPrediction is about to take a turn
\* and finds an unselected candidate in its pool
fillerFindsCandidate ==
    /\ (call.op = "predicting" /\ call.pc = "fillNumbers"
            /\ Len(call.selectedNumbers) < 5)
           => without(call.topNumbers, call.selectedNumbers) # <<>>
    /\ (call.op = "predicting" /\ call.pc = "fillStars"
            /\ Len(call.selectedStars) < 2)
           => without(call.topStars, call.selectedStars) # <<>>
predictionWellFormed ==
    call.op = "generateFrequencyBasedPrediction"
        => /\ isWellFormed(ret)
           /\ isSortedAscending(ret.numbers)
           /\ isSortedAscending(ret.stars)

\* C25: generateFrequencyBasedPrediction terminates for every history (the
\* empty one included) and every sequence of random values: every turn of its
\* two filler loops finds an unselected candidate, every started call returns,
\* and the result is 5 pairwise distinct numbers in 1..50 and 2 distinct
\* stars in 1..12, each sorted ascending.
C25_PredictionTerminates ==
    /\ [](fillerFindsCandidate /\ predictionWellFormed)
    /\ (call.op = "predicting") ~> (call.op = "generateFrequencyBasedPrediction")
\* a prediction on the empty history, where nothing is due and both filler
\* loops had to draw
C25_Witness ==
    /\ call.op = "generateFrequencyBasedPrediction"
    /\ draws = <<>>
    /\ call.dueNumbers = <<>> /\ call.dueStars = <<>>
    /\ isWellFormed(ret)

\* C26: for every history the hot view and the cold view are disjoint: no
\* number is returned by both getHotNumbers and getColdNumbers, and
\* getHotColdRecommendation never lists a number in both useHot and avoidCold.
C26_HotColdDisjoint ==
    /\ call.op = "analyzeHotCold"
           => elements(numbersOfEntries(ret.hotNumbers))
                  \cap elements(numbersOfEntries(ret.coldNumbers)) = {}
    /\ call.op = "getHotColdRecommendation"
           => elements(ret.useHot) \cap elements(ret.avoidCold) = {}

\* C27: for every well-formed bet and draw a result that hasHighPotential
\* reports (numberMatchCount >= 4, or numberMatchCount >= 3 with
\* starMatchCount >= 2) is a winner: its matchCode is in the prize table and
\* isWinner is true, so the highPotential list of the check-results route is a
\* part of its winners list.
C27_HighPotentialWins ==
    /\ (call.op = "checkBet" /\ isWellFormed(call.bet) /\ isWellFormed(resultDraw)
            /\ hasHighPotential(ret))
           => (ret.isWinner = TRUE /\ ret.matchCode \in WinningCodes)
    /\ (call.op = "checkResults" /\ Len(bets) > 0 /\ isWellFormed(resultDraw)
            /\ \A i \in DOMAIN bets : isWellFormed(bets[i]))
           => /\ elements(ret.highPotential) \subseteq elements(ret.winners)
              /\ \A i \in DOMAIN ret.highPotential :
                    ret.highPotential[i].matchCode \in WinningCodes
\* the route has answered for three well-formed bets: a 4+0 and a 3+2 result
\* are high-potential and winners, the third result is neither
C27_Witness ==
    /\ call.op = "checkResults"
    /\ Len(bets) = 3
    /\ isWellFormed(resultDraw)
    /\ \A i \in DOMAIN bets : isWellFormed(bets[i])
    /\ Len(ret.highPotential) = 2
    /\ ret.highPotential[1].matchCode = "4+0"
    /\ ret.highPotential[2].matchCode = "3+2"
    /\ Len(ret.winners) = 2
    /\ ret.results[3].isWinner = FALSE

\* C28: the combinations returned by one call of generateTopCombinations are
\* pairwise different: no two returned entries have both the same 5 numbers and
\* the same 2 stars.
C28_PairwiseDifferent ==
    (call.op = "generateTopCombinations")
        => \A i, j \in DOMAIN ret :
              (i # j) => ~(ret[i].numbers = ret[j].numbers /\ ret[i].stars = ret[j].stars)

\* C30: in the sequence returned by generateTopCombinations an entry with a
\* better (smaller) rank never has a strictly smaller confidence than an entry
\* with a worse rank.
C30_ConfidenceFollowsRank ==
    (call.op = "generateTopCombinations")
        => \A i, j \in DOMAIN ret :
              (ret[i].rank < ret[j].rank) => (ret[i].confidence >= ret[j].confidence)

\* C29: when two store-bet POST requests carrying valid bets are handled
\* concurrently, with their read, append and write steps interleaved in any
\* order, both bets are in the bet store once both requests have completed:
\* no accepted bet is lost.
C29_NoAcceptedBetLost ==
    (\A h \in 1..MaxRequests :
        /\ requests[h].method = "POST" /\ requests[h].pc = "done"
        /\ requests[h].status = 200 /\ isWellFormed(requests[h].newBet))
       => \A h \in 1..MaxRequests : includes(betFile, requests[h].newBet)

=============================================================================
